---------------------------- MODULE Spec2Model ----------------------------
(***************************************************************************)
(* A model of the trust core of the esper notary (tee-tlsn):               *)
(*   - crates/verifier/src/provider.rs   provider matching, preprocessing, *)
(*                                       the attribute expression language *)
(*   - crates/verifier/src/tls/notarize.rs   Verifier<Notarize>::finalize  *)
(*   - crates/verifier/src/util.rs, crates/wasm/src/lib.rs   verification  *)
(*                                                                         *)
(* Rust strings are sequences of one-character strings.  A JSON number is  *)
(* an integer value with the serde_json representation it is stored in     *)
(* (integer or float); fractional parts other than ".0" are outside the    *)
(* modelled inputs.                                                        *)
(***************************************************************************)
EXTENDS Integers, Sequences, FiniteSets, TLC

(***************************************************************************)
(* Strings                                                                 *)
(***************************************************************************)
WS == {" ", "\t", "\n", "\r"}

\* The grave accent U+0060, which a TLA+ string literal cannot hold.
Backtick == "U+0060"

\* The letter e with acute accent, U+00E9: two bytes in UTF-8.
EAcute == "U+00E9"

\* str::len: the length of the UTF-8 encoding in bytes.
str_len(s) == Len(s) + Cardinality({i \in 1..Len(s) : s[i] = EAcute})

Digits == {"0", "1", "2", "3", "4", "5", "6", "7", "8", "9"}

DigitVal(c) ==
  CASE c = "0" -> 0 [] c = "1" -> 1 [] c = "2" -> 2 [] c = "3" -> 3
    [] c = "4" -> 4 [] c = "5" -> 5 [] c = "6" -> 6 [] c = "7" -> 7
    [] c = "8" -> 8 [] c = "9" -> 9

DigitChar(d) ==
  CASE d = 0 -> "0" [] d = 1 -> "1" [] d = 2 -> "2" [] d = 3 -> "3"
    [] d = 4 -> "4" [] d = 5 -> "5" [] d = 6 -> "6" [] d = 7 -> "7"
    [] d = 8 -> "8" [] d = 9 -> "9"

\* s[from ..], s[.. to] and s[from .. to] of a Rust string slice.
Drop(s, n) == SubSeq(s, n + 1, Len(s))

Take(s, n) == SubSeq(s, 1, n)

RECURSIVE TrimStart(_)
TrimStart(s) ==
  IF s # <<>> /\ Head(s) \in WS THEN TrimStart(Tail(s)) ELSE s

RECURSIVE TrimEnd(_)
TrimEnd(s) ==
  IF s # <<>> /\ s[Len(s)] \in WS THEN TrimEnd(Take(s, Len(s) - 1)) ELSE s

\* str::trim
Trim(s) == TrimEnd(TrimStart(s))

\* str::starts_with / ends_with for a string pattern
StartsWith(s, p) == Len(s) >= Len(p) /\ Take(s, Len(p)) = p

EndsWith(s, p) == Len(s) >= Len(p) /\ Drop(s, Len(s) - Len(p)) = p

\* The position (1-based) of the first / last occurrence of character c, 0 if none.
RECURSIVE FindChar(_, _, _)
FindChar(s, c, i) ==
  IF i > Len(s) THEN 0
  ELSE IF s[i] = c THEN i
  ELSE FindChar(s, c, i + 1)

RECURSIVE RFindChar(_, _, _)
RFindChar(s, c, i) ==
  IF i < 1 THEN 0
  ELSE IF s[i] = c THEN i
  ELSE RFindChar(s, c, i - 1)

\* Decimal rendering of a natural number.
RECURSIVE NatStr(_)
NatStr(n) ==
  IF n < 10 THEN <<DigitChar(n)>> ELSE NatStr(n \div 10) \o <<DigitChar(n % 10)>>

IntStr(n) == IF n < 0 THEN <<"-">> \o NatStr(-n) ELSE NatStr(n)

RECURSIVE DigitsVal(_, _)
DigitsVal(s, acc) ==
  IF s = <<>> THEN acc ELSE DigitsVal(Tail(s), acc * 10 + DigitVal(Head(s)))

AllIn(s, S) == \A i \in 1..Len(s) : s[i] \in S

(***************************************************************************)
(* serde_json::Value                                                       *)
(***************************************************************************)
\* serde_json::Number: an integer (PosInt / NegInt) or a float; the two
\* representations of one value are different Numbers.
NumInt(v) == [v |-> v, float |-> FALSE]

NumFloat(v) == [v |-> v, float |-> TRUE]

JNull == [s |-> <<>>, n |-> NumInt(0), t |-> "null", b |-> FALSE, a |-> <<>>, o |-> <<>>]

JBool(x) == [s |-> <<>>, n |-> NumInt(0), t |-> "bool", b |-> x, a |-> <<>>, o |-> <<>>]

JNumber(x) == [s |-> <<>>, n |-> x, t |-> "number", b |-> FALSE, a |-> <<>>, o |-> <<>>]

JString(x) == [s |-> x, n |-> NumInt(0), t |-> "string", b |-> FALSE, a |-> <<>>, o |-> <<>>]

JArray(x) == [s |-> <<>>, n |-> NumInt(0), t |-> "array", b |-> FALSE, a |-> x, o |-> <<>>]

\* An object is a function from its keys to their values.
JObject(x) == [s |-> <<>>, n |-> NumInt(0), t |-> "object", b |-> FALSE, a |-> <<>>, o |-> x]

\* Value::get(key): the member of an object, None for any other value.
HasKey(val, key) == val.t = "object" /\ key \in DOMAIN val.o

(***************************************************************************)
(* serde_json::from_str, for JSON text without \u escapes and exponents    *)
(***************************************************************************)
PFail == [ok |-> FALSE, val |-> JNull, pos |-> 0]

POk(v, p) == [ok |-> TRUE, val |-> v, pos |-> p]

RECURSIVE SkipWs(_, _)
SkipWs(s, i) ==
  IF i <= Len(s) /\ s[i] \in WS THEN SkipWs(s, i + 1) ELSE i

\* The end (exclusive) of the run of digits that starts at i.
RECURSIVE DigitsEnd(_, _)
DigitsEnd(s, i) ==
  IF i <= Len(s) /\ s[i] \in Digits THEN DigitsEnd(s, i + 1) ELSE i

ParseJsonNumber(s, i) ==
  LET neg == s[i] = "-"
      st == IF neg THEN i + 1 ELSE i
      en == DigitsEnd(s, st)
      mag == DigitsVal(SubSeq(s, st, en - 1), 0)
      v == IF neg THEN -mag ELSE mag
      fe == DigitsEnd(s, en + 1)
  IN  IF en = st THEN PFail
      ELSE IF s[st] = "0" /\ en > st + 1 THEN PFail
      ELSE IF en <= Len(s) /\ s[en] = "."
        THEN IF fe = en + 1 THEN PFail
             ELSE POk(JNumber(NumFloat(v)), fe)
      ELSE POk(JNumber(NumInt(v)), en)

\* The characters of a string up to its closing quote: an escape denotes its
\* character, a raw control character is an error.
JsonEscaped(c) ==
  CASE c = "n" -> "\n" [] c = "r" -> "\r" [] c = "t" -> "\t" [] OTHER -> c

RECURSIVE ParseJsonChars(_, _, _)
ParseJsonChars(s, i, acc) ==
  IF i > Len(s) THEN PFail
  ELSE IF s[i] = "\"" THEN POk(JString(acc), i + 1)
  ELSE IF s[i] \in {"\t", "\n", "\r"} THEN PFail
  ELSE IF s[i] = "\\"
    THEN IF i + 1 <= Len(s) /\ s[i + 1] \in {"\"", "\\", "/", "n", "r", "t"}
           THEN ParseJsonChars(s, i + 2, Append(acc, JsonEscaped(s[i + 1])))
           ELSE PFail
  ELSE ParseJsonChars(s, i + 1, Append(acc, s[i]))

ParseJsonString(s, i) == ParseJsonChars(s, i + 1, <<>>)

ParseJsonLiteral(s, i, word, v) ==
  IF i + Len(word) - 1 <= Len(s) /\ SubSeq(s, i, i + Len(word) - 1) = word
    THEN POk(v, i + Len(word))
    ELSE PFail

RECURSIVE ParseJsonValue(_, _)
RECURSIVE ParseJsonMembers(_, _, _)
RECURSIVE ParseJsonElements(_, _, _)
ParseJsonValue(s, i0) ==
  LET i == SkipWs(s, i0)
  IN  IF i > Len(s) THEN PFail
      ELSE CASE s[i] = "{" ->
                  LET k == SkipWs(s, i + 1)
                  IN  IF k <= Len(s) /\ s[k] = "}"
                        THEN POk(JObject(<<>>), k + 1)
                        ELSE ParseJsonMembers(s, k, <<>>)
             [] s[i] = "[" ->
                  LET k == SkipWs(s, i + 1)
                  IN  IF k <= Len(s) /\ s[k] = "]"
                        THEN POk(JArray(<<>>), k + 1)
                        ELSE ParseJsonElements(s, k, <<>>)
             [] s[i] = "\"" -> ParseJsonString(s, i)
             [] s[i] \in Digits \cup {"-"} -> ParseJsonNumber(s, i)
             [] s[i] = "t" -> ParseJsonLiteral(s, i, <<"t", "r", "u", "e">>, JBool(TRUE))
             [] s[i] = "f" -> ParseJsonLiteral(s, i, <<"f", "a", "l", "s", "e">>, JBool(FALSE))
             [] s[i] = "n" -> ParseJsonLiteral(s, i, <<"n", "u", "l", "l">>, JNull)
             [] OTHER -> PFail

\* "key": value pairs up to the closing brace; a later duplicate key replaces
\* the earlier one.
ParseJsonMembers(s, i0, acc) ==
  LET i == SkipWs(s, i0)
      key == IF i <= Len(s) /\ s[i] = "\"" THEN ParseJsonString(s, i) ELSE PFail
      c == SkipWs(s, key.pos)
      val == IF key.ok /\ c <= Len(s) /\ s[c] = ":" THEN ParseJsonValue(s, c + 1) ELSE PFail
      e == SkipWs(s, val.pos)
      acc2 == (key.val.s :> val.val) @@ acc
  IN  IF ~val.ok \/ e > Len(s) THEN PFail
      ELSE IF s[e] = "}" THEN POk(JObject(acc2), e + 1)
      ELSE IF s[e] = "," THEN ParseJsonMembers(s, e + 1, acc2)
      ELSE PFail

ParseJsonElements(s, i0, acc) ==
  LET val == ParseJsonValue(s, i0)
      e == SkipWs(s, val.pos)
      acc2 == Append(acc, val.val)
  IN  IF ~val.ok \/ e > Len(s) THEN PFail
      ELSE IF s[e] = "]" THEN POk(JArray(acc2), e + 1)
      ELSE IF s[e] = "," THEN ParseJsonElements(s, e + 1, acc2)
      ELSE PFail

\* serde_json::from_str::<Value>: one value, then only whitespace.
ParseJson(s) ==
  LET r == ParseJsonValue(s, 1)
  IN  IF r.ok /\ SkipWs(s, r.pos) > Len(s)
        THEN [ok |-> TRUE, val |-> r.val]
        ELSE [ok |-> FALSE, val |-> JNull]

(***************************************************************************)
(* f64 and the rendering of JSON values                                    *)
(***************************************************************************)
\* The text in lower case, for the letters of inf, infinity and nan.
LowerStr(s) ==
  [i \in 1..Len(s) |->
     CASE s[i] = "I" -> "i" [] s[i] = "N" -> "n" [] s[i] = "F" -> "f" [] s[i] = "A" -> "a"
       [] s[i] = "T" -> "t" [] s[i] = "Y" -> "y" [] OTHER -> s[i]]

\* str::parse::<f64>: an optional sign, then inf / infinity / nan in any case,
\* or decimal digits with an optional fraction (here a fraction of zeros).
ParseF64(s) ==
  LET signed == s # <<>> /\ Head(s) \in {"+", "-"}
      neg == s # <<>> /\ Head(s) = "-"
      body == IF signed THEN Tail(s) ELSE s
      low == LowerStr(body)
      dot == FindChar(body, ".", 1)
      ip == IF dot = 0 THEN body ELSE Take(body, dot - 1)
      fp == IF dot = 0 THEN <<>> ELSE Drop(body, dot)
      mag == DigitsVal(ip, 0)
  IN  IF low \in {<<"i", "n", "f">>, <<"i", "n", "f", "i", "n", "i", "t", "y">>}
        THEN [ok |-> TRUE, cls |-> "infinite", v |-> 0]
      ELSE IF low = <<"n", "a", "n">>
        THEN [ok |-> TRUE, cls |-> "nan", v |-> 0]
      ELSE IF AllIn(ip, Digits) /\ AllIn(fp, Digits) /\ Len(ip) + Len(fp) > 0
        THEN [ok |-> TRUE, cls |-> "finite", v |-> IF neg THEN -mag ELSE mag]
      ELSE [ok |-> FALSE, cls |-> "finite", v |-> 0]

\* A coercion that takes a string of digits for a number too.
IsNumberOrNumericString(val) ==
  val.t = "number" \/ (val.t = "string" /\ ParseF64(val.s).ok)

\* Value::as_f64 is Some for every Number, Value::as_bool for every Bool.
IsNumber(val) == val.t = "number"

IsBool(val) == val.t = "bool"

\* The printable ASCII characters U+0020 .. U+007E in code order.
Printable ==
  <<
    " ", "!", "\"", "#", "$", "%", "&", "'", "(", ")", "*", "+",
    ",", "-", ".", "/", "0", "1", "2", "3", "4", "5", "6", "7",
    "8", "9", ":", ";", "<", "=", ">", "?", "@", "A", "B", "C",
    "D", "E", "F", "G", "H", "I", "J", "K", "L", "M", "N", "O",
    "P", "Q", "R", "S", "T", "U", "V", "W", "X", "Y", "Z", "[",
    "\\", "]", "^", "_", Backtick, "a", "b", "c", "d", "e", "f", "g",
    "h", "i", "j", "k", "l", "m", "n", "o", "p", "q", "r", "s",
    "t", "u", "v", "w", "x", "y", "z", "{", "|", "}", "~"
  >>

\* The code of a character: its only UTF-8 byte.
CharCode(c) ==
  CASE c = "\t" -> 9
    [] c = "\n" -> 10
    [] c = "\r" -> 13
    [] OTHER -> 31 + (CHOOSE i \in 1..Len(Printable) : Printable[i] = c)

RECURSIVE StrLess(_, _)
StrLess(s, t) ==
  IF t = <<>> THEN FALSE
  ELSE IF s = <<>> THEN TRUE
  ELSE IF Head(s) = Head(t) THEN StrLess(Tail(s), Tail(t))
  ELSE CharCode(Head(s)) < CharCode(Head(t))

EscapeJsonChar(c) ==
  CASE c = "\"" -> <<"\\", "\"">>
    [] c = "\\" -> <<"\\", "\\">>
    [] c = "\n" -> <<"\\", "n">>
    [] c = "\r" -> <<"\\", "r">>
    [] c = "\t" -> <<"\\", "t">>
    [] OTHER -> <<c>>

RECURSIVE EscapeJson(_)
EscapeJson(s) ==
  IF s = <<>> THEN <<>> ELSE EscapeJsonChar(Head(s)) \o EscapeJson(Tail(s))

QuoteJson(s) == <<"\"">> \o EscapeJson(s) \o <<"\"">>

\* Value::to_string, the compact JSON text of a value.  An integer prints its
\* digits, a float with an integral value prints them followed by ".0".
RECURSIVE ValueToString(_)
RECURSIVE ArrayToString(_)
RECURSIVE MembersToString(_, _)
ValueToString(val) ==
  CASE val.t = "null" -> <<"n", "u", "l", "l">>
    [] val.t = "bool" -> IF val.b THEN <<"t", "r", "u", "e">> ELSE <<"f", "a", "l", "s", "e">>
    [] val.t = "number" -> IF val.n.float THEN IntStr(val.n.v) \o <<".", "0">> ELSE IntStr(val.n.v)
    [] val.t = "string" -> QuoteJson(val.s)
    [] val.t = "array" -> <<"[">> \o ArrayToString(val.a) \o <<"]">>
    [] val.t = "object" -> <<"{">> \o MembersToString(val.o, DOMAIN val.o) \o <<"}">>

ArrayToString(a) ==
  IF a = <<>> THEN <<>>
  ELSE IF Len(a) = 1 THEN ValueToString(a[1])
  ELSE ValueToString(a[1]) \o <<",">> \o ArrayToString(Tail(a))

MembersToString(o, keys) ==
  IF keys = {} THEN <<>>
  ELSE LET k == CHOOSE m \in keys : \A other \in keys \ {m} : StrLess(m, other)
           one == QuoteJson(k) \o <<":">> \o ValueToString(o[k])
       IN  IF keys = {k} THEN one
           ELSE one \o <<",">> \o MembersToString(o, keys \ {k})

(***************************************************************************)
(* The attribute expression language                                       *)
(***************************************************************************)
\* The outcome of an evaluation: a value, an Err(String), or a panic that
\* unwinds out of the call.
ROk(v) == [st |-> "ok", val |-> v, msg |-> "", arg |-> <<>>]

RErr(m, a) == [st |-> "err", val |-> JNull, msg |-> m, arg |-> a]

RPanic(m) == [st |-> "panic", val |-> JNull, msg |-> m, arg |-> <<>>]

\* find_operator_position: the 1-based position of the first occurrence of op
\* at parenthesis depth 0 and outside backticks, 0 for None.
RECURSIVE FindOp(_, _, _, _, _)
FindOp(expr, op, i, paren_count, in_backticks) ==
  IF i > Len(expr) THEN 0
  ELSE LET ch == expr[i]
       IN  IF ch = Backtick THEN FindOp(expr, op, i + 1, paren_count, ~in_backticks)
           ELSE IF ch = "(" /\ ~in_backticks
             THEN FindOp(expr, op, i + 1, paren_count + 1, in_backticks)
           ELSE IF ch = ")" /\ ~in_backticks
             THEN FindOp(expr, op, i + 1, paren_count - 1, in_backticks)
           ELSE IF ~in_backticks /\ paren_count = 0 /\ StartsWith(Drop(expr, i - 1), op)
             THEN i
           ELSE FindOp(expr, op, i + 1, paren_count, in_backticks)

\* The first occurrence of op anywhere in expr, within parentheses or
\* backticks too.
find_first_occurrence(expr, op) ==
  IF \E i \in 1..Len(expr) : StartsWith(Drop(expr, i - 1), op)
    THEN CHOOSE i \in 1..Len(expr) :
           /\ StartsWith(Drop(expr, i - 1), op)
           /\ \A j \in 1..(i - 1) : ~StartsWith(Drop(expr, j - 1), op)
    ELSE 0

find_operator_position(expr, op) == FindOp(expr, op, 1, 0, FALSE)

\* Number::from_f64 of a parsed float: None for NaN and the infinities.
LiteralNumber(f, m) ==
  IF f.cls = "finite" THEN ROk(JNumber(NumFloat(f.v))) ELSE RErr(m, <<>>)

\* A literal that is always the text of the token, also for a token of
\* digits.
parse_literal_text(value_str0) ==
  LET value_str == Trim(value_str0)
      n == Len(value_str)
      inner == SubSeq(value_str, 2, n - 1)
  IN  IF \/ StartsWith(value_str, <<Backtick>>) /\ EndsWith(value_str, <<Backtick>>)
         \/ StartsWith(value_str, <<"\"">>) /\ EndsWith(value_str, <<"\"">>)
         \/ StartsWith(value_str, <<"'">>) /\ EndsWith(value_str, <<"'">>)
        THEN IF n < 2 THEN RPanic("slice index starts at 1 but ends at 0")
             ELSE ROk(JString(inner))
      ELSE ROk(JString(value_str))

\* A literal that keeps the single and double quotes of a quoted token.
parse_literal_quoted(value_str0) ==
  LET value_str == Trim(value_str0)
      n == Len(value_str)
      inner == SubSeq(value_str, 2, n - 1)
      num == ParseF64(value_str)
  IN  IF StartsWith(value_str, <<Backtick>>) /\ EndsWith(value_str, <<Backtick>>)
        THEN IF n < 2 THEN RPanic("slice index starts at 1 but ends at 0")
             ELSE IF ParseF64(inner).ok
               THEN LiteralNumber(ParseF64(inner), "Invalid number value in backticks (NaN or infinite)")
             ELSE ROk(JString(inner))
      ELSE IF num.ok THEN LiteralNumber(num, "Invalid number value (NaN or infinite)")
      ELSE IF n < 2 /\ value_str \in {<<"'">>, <<"\"">>}
        THEN RPanic("slice index starts at 1 but ends at 0")
      ELSE ROk(JString(value_str))

\* &value_str[1..value_str.len() - 1] panics on a one-character string.
parse_literal_value(value_str0) ==
  LET value_str == Trim(value_str0)
      n == Len(value_str)
      inner == SubSeq(value_str, 2, n - 1)
      num == ParseF64(value_str)
  IN  IF StartsWith(value_str, <<Backtick>>) /\ EndsWith(value_str, <<Backtick>>)
        THEN IF n < 2 THEN RPanic("slice index starts at 1 but ends at 0")
             ELSE IF ParseF64(inner).ok
               THEN LiteralNumber(ParseF64(inner), "Invalid number value in backticks (NaN or infinite)")
             ELSE ROk(JString(inner))
      ELSE IF num.ok THEN LiteralNumber(num, "Invalid number value (NaN or infinite)")
      ELSE IF \/ StartsWith(value_str, <<"\"">>) /\ EndsWith(value_str, <<"\"">>)
              \/ StartsWith(value_str, <<"'">>) /\ EndsWith(value_str, <<"'">>)
        THEN IF n < 2 THEN RPanic("slice index starts at 1 but ends at 0")
             ELSE ROk(JString(inner))
      ELSE ROk(JString(value_str))

\* str::split(c): the pieces between the occurrences of c.
RECURSIVE SplitChar(_, _)
SplitChar(s, c) ==
  LET p == FindChar(s, c, 1)
  IN  IF p = 0 THEN <<s>> ELSE <<Take(s, p - 1)>> \o SplitChar(Drop(s, p), c)

\* A traversal that looks every part up in the data itself, without descent.
TraverseFlat(parts, current) ==
  IF \A i \in 1..Len(parts) : HasKey(current, parts[i])
    THEN ROk(current.o[parts[Len(parts)]])
    ELSE RErr("Field not found",
              parts[CHOOSE i \in 1..Len(parts) :
                      /\ ~HasKey(current, parts[i])
                      /\ \A j \in 1..(i - 1) : HasKey(current, parts[j])])

\* The traversal of a dotted path: Value::get of each part in turn.
RECURSIVE Traverse(_, _)
Traverse(parts, current) ==
  IF parts = <<>> THEN ROk(current)
  ELSE IF HasKey(current, Head(parts)) THEN Traverse(Tail(parts), current.o[Head(parts)])
  ELSE RErr("Field not found", Head(parts))

\* A conversion that lets every float through, NaN and the infinities too.
ToNumberUnchecked(inner_val) ==
  IF inner_val.t = "number" THEN ROk(inner_val)
  ELSE IF inner_val.t = "string" /\ ParseF64(inner_val.s).ok
    THEN ROk(JNumber(NumFloat(ParseF64(inner_val.s).v)))
  ELSE RErr("Cannot convert to number", <<>>)

\* to_number(..): the match on the value of the inner expression.
ToNumber(inner_val) ==
  IF inner_val.t = "number" THEN ROk(inner_val)
  ELSE IF inner_val.t = "string" /\ ParseF64(inner_val.s).ok
    THEN LiteralNumber(ParseF64(inner_val.s), "Invalid number value (NaN or infinite)")
  ELSE RErr("Cannot convert to number", <<>>)

\* A length that counts the characters of a string.
LengthOfChars(inner_val) ==
  IF inner_val.t = "string" THEN ROk(JNumber(NumInt(Len(inner_val.s))))
  ELSE IF inner_val.t = "array" THEN ROk(JNumber(NumInt(Len(inner_val.a))))
  ELSE RErr("Cannot get length", <<>>)

\* length(..): the match on the value of the inner expression.
LengthOf(inner_val) ==
  IF inner_val.t = "string" THEN ROk(JNumber(NumInt(str_len(inner_val.s))))
  ELSE IF inner_val.t = "array" THEN ROk(JNumber(NumInt(Len(inner_val.a))))
  ELSE RErr("Cannot get length", <<>>)

\* An && that yields false for a false left side, whatever the right side.
LogicalAndShortCircuit(left_val, right_val) ==
  IF left_val.st # "ok" THEN left_val
  ELSE IF IsBool(left_val.val) /\ ~left_val.val.b THEN ROk(JBool(FALSE))
  ELSE IF right_val.st # "ok" THEN right_val
  ELSE IF ~IsBool(left_val.val) THEN RErr("Left side of && is not boolean", <<>>)
  ELSE IF ~IsBool(right_val.val) THEN RErr("Right side of && is not boolean", <<>>)
  ELSE ROk(JBool(left_val.val.b /\ right_val.val.b))

\* The && branch after the split: both sides are evaluated with "?", then
\* each must be a boolean.
LogicalAnd(left_val, right_val) ==
  IF left_val.st # "ok" THEN left_val
  ELSE IF right_val.st # "ok" THEN right_val
  ELSE IF ~IsBool(left_val.val) THEN RErr("Left side of && is not boolean", <<>>)
  ELSE IF ~IsBool(right_val.val) THEN RErr("Right side of && is not boolean", <<>>)
  ELSE ROk(JBool(left_val.val.b /\ right_val.val.b))

RECURSIVE evaluate_field_expression(_, _)
evaluate_field_expression(expr0, data) ==
  LET expr == Trim(expr0)
      and_pos == find_operator_position(expr, <<"&", "&">>)
      gt_pos == find_operator_position(expr, << ">" >>)
      eq_pos == find_operator_position(expr, <<"=", "=">>)
      to_number == <<"t", "o", "_", "n", "u", "m", "b", "e", "r", "(">>
      length == <<"l", "e", "n", "g", "t", "h", "(">>
  IN  IF and_pos # 0 THEN
        LET left_val == evaluate_field_expression(Take(expr, and_pos - 1), data)
            right_val == evaluate_field_expression(Drop(expr, and_pos + 1), data)
        IN  LogicalAnd(left_val, right_val)
      ELSE IF gt_pos # 0 THEN
        LET left_val == evaluate_field_expression(Take(expr, gt_pos - 1), data)
            right_val == parse_literal_value(Drop(expr, gt_pos))
        IN  IF left_val.st # "ok" THEN left_val
            ELSE IF right_val.st # "ok" THEN right_val
            ELSE IF IsNumber(left_val.val) /\ IsNumber(right_val.val)
              THEN ROk(JBool(left_val.val.n.v > right_val.val.n.v))
            ELSE RErr("Cannot compare", <<>>)
      ELSE IF eq_pos # 0 THEN
        LET left_val == evaluate_field_expression(Take(expr, eq_pos - 1), data)
            right_val == parse_literal_value(Drop(expr, eq_pos + 1))
        IN  IF left_val.st # "ok" THEN left_val
            ELSE IF right_val.st # "ok" THEN right_val
            ELSE ROk(JBool(left_val.val = right_val.val))
      ELSE IF StartsWith(expr, to_number) /\ EndsWith(expr, <<")">>) THEN
        LET inner_val == evaluate_field_expression(SubSeq(expr, 11, Len(expr) - 1), data)
        IN  IF inner_val.st # "ok" THEN inner_val ELSE ToNumber(inner_val.val)
      ELSE IF StartsWith(expr, length) /\ EndsWith(expr, <<")">>) THEN
        LET inner_val == evaluate_field_expression(SubSeq(expr, 8, Len(expr) - 1), data)
        IN  IF inner_val.st # "ok" THEN inner_val ELSE LengthOf(inner_val.val)
      ELSE IF FindChar(expr, ".", 1) # 0 THEN Traverse(SplitChar(expr, "."), data)
      ELSE IF HasKey(data, expr) THEN ROk(data.o[expr])
      ELSE RErr("Field not found", expr)

\* split_attribute_fields: the trimmed, non-empty pieces between the commas at
\* parenthesis depth 0 and outside backticks.
PushField(fields, current) ==
  IF Trim(current) # <<>> THEN Append(fields, Trim(current)) ELSE fields

RECURSIVE SplitFields(_, _, _, _, _, _)
SplitFields(content, i, fields, current, paren_count, in_backticks) ==
  IF i > Len(content) THEN PushField(fields, current)
  ELSE LET ch == content[i]
       IN  IF ch = Backtick
             THEN SplitFields(content, i + 1, fields, Append(current, ch), paren_count, ~in_backticks)
           ELSE IF ch = "(" /\ ~in_backticks
             THEN SplitFields(content, i + 1, fields, Append(current, ch), paren_count + 1, in_backticks)
           ELSE IF ch = ")" /\ ~in_backticks
             THEN SplitFields(content, i + 1, fields, Append(current, ch), paren_count - 1, in_backticks)
           ELSE IF ch = "," /\ ~in_backticks /\ paren_count = 0
             THEN SplitFields(content, i + 1, PushField(fields, current), <<>>, paren_count, in_backticks)
           ELSE SplitFields(content, i + 1, fields, Append(current, ch), paren_count, in_backticks)

\* A split at every comma, within parentheses and backticks too.
split_at_every_comma(content) ==
  LET pieces == SplitChar(content, ",")
      trimmed == [i \in 1..Len(pieces) |-> Trim(pieces[i])]
  IN  SelectSeq(trimmed, LAMBDA piece : piece # <<>>)

split_attribute_fields(content) == SplitFields(content, 1, <<>>, <<>>, 0, FALSE)

\* parse_field_mapping: split_once(':'), both sides trimmed.
parse_field_mapping(field_str) ==
  LET p == FindChar(field_str, ":", 1)
  IN  IF p = 0 THEN [ok |-> FALSE, key |-> <<>>, expr |-> <<>>]
      ELSE [ok |-> TRUE, key |-> Trim(Take(field_str, p - 1)), expr |-> Trim(Drop(field_str, p))]

\* expr.trim().strip_prefix('{').and_then(strip_suffix('}')).unwrap_or(expr).trim()
StripBraces(expr) ==
  LET t == Trim(expr)
  IN  IF StartsWith(t, <<"{">>) /\ EndsWith(Tail(t), <<"}">>)
        THEN Trim(SubSeq(t, 2, Len(t) - 1))
        ELSE Trim(expr)

\* The loop over the fields: each value is inserted into the HashMap under its
\* output key, a later field replacing an earlier one of the same key; the
\* first field that fails ends the evaluation.
RECURSIVE EvalFields(_, _, _)
EvalFields(fields, data, result) ==
  IF fields = <<>> THEN [st |-> "ok", map |-> result, msg |-> "", arg |-> <<>>]
  ELSE LET m == parse_field_mapping(Head(fields))
           value == evaluate_field_expression(m.expr, data)
       IN  IF ~m.ok
             THEN [st |-> "err", map |-> <<>>, msg |-> "Invalid field mapping", arg |-> Head(fields)]
           ELSE IF value.st # "ok"
             THEN [st |-> value.st, map |-> <<>>, msg |-> value.msg, arg |-> value.arg]
           ELSE EvalFields(Tail(fields), data, (m.key :> value.val) @@ result)

evaluate_attribute_expression(expr, data) ==
  EvalFields(split_attribute_fields(StripBraces(expr)), data, <<>>)

(***************************************************************************)
(* regex::Regex, for patterns of literal characters, "." and groups        *)
(***************************************************************************)
\* The nesting depth after each character never drops below 0 and ends at 0.
RECURSIVE ParenDepthOk(_, _)
ParenDepthOk(pat, depth) ==
  IF pat = <<>> THEN depth = 0
  ELSE IF Head(pat) = "(" THEN ParenDepthOk(Tail(pat), depth + 1)
  ELSE IF Head(pat) = ")" THEN depth > 0 /\ ParenDepthOk(Tail(pat), depth - 1)
  ELSE ParenDepthOk(Tail(pat), depth)

\* Regex::new is Ok
RegexCompiles(pat) == ParenDepthOk(pat, 0)

\* Regex::is_match: the pattern matches somewhere in the text.
RegexIsMatch(pat, text) ==
  LET atoms == SelectSeq(pat, LAMBDA c : c \notin {"(", ")"})
  IN  \E i \in 1..(Len(text) + 1) :
        /\ i + Len(atoms) - 1 <= Len(text)
        /\ \A k \in 1..Len(atoms) : atoms[k] = "." \/ atoms[k] = text[i + k - 1]

(***************************************************************************)
(* Provider                                                                *)
(***************************************************************************)
\* A check of the url alone, whatever the method.
check_url_only(p, cache, url, method) ==
  IF p.id \in DOMAIN cache
    THEN [st |-> "ok", val |-> RegexIsMatch(cache[p.id], url), cache |-> cache]
  ELSE IF ~RegexCompiles(p.url_regex)
    THEN [st |-> "err", val |-> FALSE, cache |-> cache]
  ELSE [st |-> "ok", val |-> RegexIsMatch(p.url_regex, url),
        cache |-> (p.id :> p.url_regex) @@ cache]

\* get_compiled_regex with the closure of check_url_method: the regex cached
\* under the provider's id decides; it is compiled from the provider's
\* url_regex and inserted only when the id has no entry.
check_url_method(p, cache, url, method) ==
  IF p.id \in DOMAIN cache
    THEN [st |-> "ok", val |-> RegexIsMatch(cache[p.id], url) /\ p.method = method,
          cache |-> cache]
  ELSE IF ~RegexCompiles(p.url_regex)
    THEN [st |-> "err", val |-> FALSE, cache |-> cache]
  ELSE [st |-> "ok", val |-> RegexIsMatch(p.url_regex, url) /\ p.method = method,
        cache |-> (p.id :> p.url_regex) @@ cache]

\* Processor::find_provider: Iterator::find over the providers in order, with
\* expect() on each check.  idx is the position of the provider found.
RECURSIVE FindFrom(_, _, _, _, _)
FindFrom(providers, i, cache, url, method) ==
  IF i > Len(providers) THEN [st |-> "none", idx |-> 0, cache |-> cache]
  ELSE LET r == check_url_method(providers[i], cache, url, method)
       IN  IF r.st = "err" THEN [st |-> "panic", idx |-> 0, cache |-> r.cache]
           ELSE IF r.val THEN [st |-> "some", idx |-> i, cache |-> r.cache]
           ELSE FindFrom(providers, i + 1, r.cache, url, method)

find_provider(providers, cache, url, method) == FindFrom(providers, 1, cache, url, method)

\* escape_js_string
\* An escape that leaves the backslash as it is.
EscapeJsCharKeepBackslash(c) ==
  CASE c = "'" -> <<"\\", "'">>
    [] c = "\n" -> <<"\\", "n">>
    [] c = "\r" -> <<"\\", "r">>
    [] c = "\t" -> <<"\\", "t">>
    [] OTHER -> <<c>>

EscapeJsChar(c) ==
  CASE c = "\\" -> <<"\\", "\\">>
    [] c = "'" -> <<"\\", "'">>
    [] c = "\n" -> <<"\\", "n">>
    [] c = "\r" -> <<"\\", "r">>
    [] c = "\t" -> <<"\\", "t">>
    [] OTHER -> <<c>>

RECURSIVE escape_js_string(_)
escape_js_string(s) ==
  IF s = <<>> THEN <<>> ELSE EscapeJsChar(Head(s)) \o escape_js_string(Tail(s))

\* extract_json_from_response: &response[start..=end] for the first '{' and
\* the last '}', the whole response if either is missing.  The slice panics
\* when start > end + 1.
extract_json_from_response(response) ==
  LET json_start == FindChar(response, "{", 1)
      json_end == RFindChar(response, "}", Len(response))
  IN  IF json_start # 0 /\ json_end # 0
        THEN IF json_start > json_end + 1
               THEN [panic |-> TRUE, text |-> <<>>]
               ELSE [panic |-> FALSE, text |-> SubSeq(response, json_start, json_end)]
        ELSE [panic |-> FALSE, text |-> response]

\* The string a JavaScript single-quoted literal with this source text denotes;
\* ok is FALSE when the text holds an unescaped quote or line terminator.
JsUnescapeChar(c) ==
  CASE c = "n" -> "\n" [] c = "r" -> "\r" [] c = "t" -> "\t" [] OTHER -> c

RECURSIVE JsLiteral(_, _)
JsLiteral(src, acc) ==
  IF src = <<>> THEN [ok |-> TRUE, str |-> acc]
  ELSE IF Head(src) = "\\"
    THEN IF Len(src) < 2 THEN [ok |-> FALSE, str |-> <<>>]
         ELSE JsLiteral(Tail(Tail(src)), Append(acc, JsUnescapeChar(src[2])))
  ELSE IF Head(src) \in {"'", "\n", "\r"} THEN [ok |-> FALSE, str |-> <<>>]
  ELSE JsLiteral(Tail(src), Append(acc, Head(src)))

\* JSON.stringify of a JavaScript value read back by serde_json: a number with
\* an integral value is written without a fraction and read as an integer.
RECURSIVE JsRoundTrip(_)
JsRoundTrip(val) ==
  CASE val.t = "number" -> JNumber(NumInt(val.n.v))
    [] val.t = "array" -> JArray([i \in 1..Len(val.a) |-> JsRoundTrip(val.a[i])])
    [] val.t = "object" -> JObject([k \in DOMAIN val.o |-> JsRoundTrip(val.o[k])])
    [] OTHER -> val

NoPreprocess == [some |-> FALSE, script |-> ""]

SomePreprocess(script) == [some |-> TRUE, script |-> script]

\* Context::default(): an interpreter context whose global object holds
\* nothing of an earlier evaluation.
ContextDefault == [calls |-> 0]

\* The outcome of the closure that runs the script: the value of
\* JSON.stringify(process(..)), an exception thrown by the script, or a panic
\* of the interpreter; context is the interpreter context after the run.
Evaluated(st, val, msg, context) == [st |-> st, val |-> val, msg |-> msg, context |-> context]

\* An evaluation in which an exception of the script is swallowed and the
\* call yields null.
EvalScriptSwallowed(script, src, context) ==
  IF script = "fault" THEN Evaluated("panic", JNull, "", context)
  ELSE IF script = "parse" /\ JsLiteral(src, <<>>).ok /\ ParseJson(JsLiteral(src, <<>>).str).ok
    THEN Evaluated("value", JsRoundTrip(ParseJson(JsLiteral(src, <<>>).str).val), "", context)
  ELSE Evaluated("value", JNull, "", context)

\* context.eval of the generated code with the response literal src.  The
\* scripts of the model: "parse" returns JSON.parse of its input, "throw"
\* throws the error 'Invalid account', "count" counts its runs in a global of
\* the context and returns the count, "fault" makes the interpreter panic.
EvalScript(script, src, context) ==
  LET lit == JsLiteral(src, <<>>)
      parsed == ParseJson(lit.str)
      counted == [context EXCEPT !.calls = @ + 1]
  IN  IF script = "fault" THEN Evaluated("panic", JNull, "", context)
      ELSE IF ~lit.ok THEN Evaluated("throw", JNull, "SyntaxError", context)
      ELSE IF script = "throw" THEN Evaluated("throw", JNull, "Invalid account", context)
      ELSE IF script = "count"
        THEN Evaluated("value", JNumber(NumInt(counted.calls)), "", counted)
      ELSE IF parsed.ok THEN Evaluated("value", JsRoundTrip(parsed.val), "", context)
      ELSE Evaluated("throw", JNull, "SyntaxError", context)

\* A boundary that catches nothing: a panic of the closure unwinds on.
no_catch_unwind(result) == result

\* std::panic::catch_unwind: a panic of the closure is caught at the boundary.
catch_unwind(result) ==
  IF result.st = "panic" THEN [result EXCEPT !.st = "caught"] ELSE result

\* The outcome of preprocess_response: Ok(value), Err(kind(msg: detail)), or a
\* panic that unwinds out of the call.
PreOk(v) == [st |-> "ok", val |-> v, kind |-> "", msg |-> "", detail |-> ""]

PreErr(k, m, d) == [st |-> "err", val |-> JNull, kind |-> k, msg |-> m, detail |-> d]

PrePanic == [st |-> "panic", val |-> JNull, kind |-> "", msg |-> "", detail |-> ""]

\* A default that is the empty object instead of the string "{}".
ParseOrEmptyObject(response) ==
  IF ParseJson(response).ok
    THEN PreOk(ParseJson(response).val)
    ELSE PreOk(JObject(<<>>))

\* The branch without a script: serde_json::from_str, or Value::String("{}").
ParseOrDefault(response) ==
  IF ParseJson(response).ok
    THEN PreOk(ParseJson(response).val)
    ELSE PreOk(JString(<<"{", "}">>))

\* Provider::preprocess_response
\* The closure given to catch_unwind: it escapes the response (for the x.com
\* host, the text from its first "{" to its last "}") and evaluates the code
\* in the context.
PreprocessClosure(p, response, context) ==
  IF p.host = "x.com"
    THEN IF extract_json_from_response(response).panic
           THEN Evaluated("panic", JNull, "", context)
           ELSE EvalScript(p.preprocess.script,
                           escape_js_string(extract_json_from_response(response).text),
                           context)
    ELSE EvalScript(p.preprocess.script, escape_js_string(response), context)

\* The branch with a script, run in the given context: the closure under
\* catch_unwind, then the match on its result.  out is the outcome of the
\* call, context the interpreter context after it.
preprocess_in(p, response, context) ==
  CHOOSE r \in
    {[context |-> result.context,
      out |-> CASE result.st = "value" -> PreOk(result.val)
                [] result.st = "throw" ->
                     PreErr("PreprocessError", "Preprocess script error", result.msg)
                [] result.st = "caught" ->
                     PreErr("PreprocessError",
                            "JavaScript execution completed but cleanup failed due to Boa GC bug",
                            "")
                [] result.st = "panic" -> PrePanic] :
       result \in {catch_unwind(closure) :
                     closure \in {PreprocessClosure(p, response, context)}}} : TRUE

\* Provider::preprocess_response: a script runs in a context created for the
\* call.
preprocess_response(p, response) ==
  IF p.preprocess.some
    THEN IF p.preprocess.script = "" THEN ParseOrDefault(response)
         ELSE preprocess_in(p, response, ContextDefault).out
    ELSE ParseOrDefault(response)

\* get_compiled_attributes: the rule strings cached under the provider's id;
\* the provider's own non-empty rule strings are inserted when the id has no
\* entry.
NonEmptyRules(attributes) == SelectSeq(attributes, LAMBDA attr : attr # <<>>)

\* A cache whose entry is replaced by every provider that uses it.
CompiledAttributesReplaced(p, cache) ==
  (p.id :> NonEmptyRules(p.attributes)) @@ cache

CompiledAttributes(p, cache) ==
  IF p.id \in DOMAIN cache THEN cache ELSE (p.id :> NonEmptyRules(p.attributes)) @@ cache

\* format!("{}: {}", key, value.to_string())
Render(key, value) == key \o <<":", " ">> \o ValueToString(value)

\* The entries of a HashMap, rendered, in each order in which the map may
\* yield them.
Renderings(map) ==
  {[i \in 1..Len(order) |-> Render(order[i], map[order[i]])] :
     order \in {f \in [1..Cardinality(DOMAIN map) -> DOMAIN map] :
                  \A i, j \in DOMAIN f : i # j => f[i] # f[j]}}

\* The closure of get_attributes: the rules in order, the entries of each
\* rule's HashMap in the order the map yields them; the first rule that fails
\* ends the call.  The result is the set of the possible outcomes.
RECURSIVE AttributeOutcomes(_, _, _)
AttributeOutcomes(attribute_expressions, response, result) ==
  IF attribute_expressions = <<>>
    THEN {[st |-> "ok", list |-> result, msg |-> "", arg |-> <<>>]}
    ELSE LET eval_result == evaluate_attribute_expression(Head(attribute_expressions), response)
         IN  IF eval_result.st # "ok"
               THEN {[st |-> eval_result.st, list |-> <<>>,
                      msg |-> eval_result.msg, arg |-> eval_result.arg]}
               ELSE UNION {AttributeOutcomes(Tail(attribute_expressions), response, result \o r) :
                             r \in Renderings(eval_result.map)}

\* Provider::get_attributes: the cache after the call, the rule strings that
\* were evaluated, and the possible outcomes.
get_attributes(p, cache, response) ==
  LET cache2 == CompiledAttributes(p, cache)
  IN  [cache |-> cache2, rules |-> cache2[p.id],
       outs |-> AttributeOutcomes(cache2[p.id], response, <<>>)]

\* Processor::process: the provider found for (url, method), its preprocessed
\* response and its attributes.  Every failure is a ProcessError; a panic of
\* find_provider or of the evaluation unwinds through the call.  idx is the
\* position of the provider found, evaluated tells whether its get_attributes
\* was called.
ProcessOutcome(st, list, found, attr_cache, evaluated) ==
  [st |-> st, list |-> list, regex_cache |-> found.cache, attr_cache |-> attr_cache,
   idx |-> found.idx, evaluated |-> evaluated]

process(providers, regex_cache, attr_cache, url, method, response) ==
  UNION {
    IF found.st = "panic" THEN {ProcessOutcome("panic", <<>>, found, attr_cache, FALSE)}
    ELSE IF found.st = "none" THEN {ProcessOutcome("err", <<>>, found, attr_cache, FALSE)}
    ELSE UNION {
      IF processed_response.st = "panic"
        THEN {ProcessOutcome("panic", <<>>, found, attr_cache, FALSE)}
      ELSE IF processed_response.st # "ok"
        THEN {ProcessOutcome("err", <<>>, found, attr_cache, FALSE)}
      ELSE UNION {
        {ProcessOutcome(o.st, o.list, found, attrs.cache, TRUE) : o \in attrs.outs} :
          attrs \in {get_attributes(providers[found.idx], attr_cache,
                                    processed_response.val)}} :
        processed_response \in {preprocess_response(providers[found.idx], response)}} :
    found \in {find_provider(providers, regex_cache, url, method)}}

(***************************************************************************)
(* Bytes, hex, digests and signatures                                      *)
(***************************************************************************)
\* str::as_bytes of an ASCII string
as_bytes(s) == [i \in 1..Len(s) |-> CharCode(s[i])]

\* String::from_utf8_lossy of ASCII bytes
from_utf8_lossy(bytes) ==
  [i \in 1..Len(bytes) |->
     CASE bytes[i] = 9 -> "\t"
       [] bytes[i] = 10 -> "\n"
       [] bytes[i] = 13 -> "\r"
       [] OTHER -> Printable[bytes[i] - 31]]

HexDigits ==
  <<"0", "1", "2", "3", "4", "5", "6", "7", "8", "9", "a", "b", "c", "d", "e", "f">>

\* hex::encode: two lower-case digits per byte
hex_encode(bytes) ==
  [i \in 1..(2 * Len(bytes)) |->
     IF i % 2 = 1 THEN HexDigits[(bytes[(i + 1) \div 2] \div 16) + 1]
                  ELSE HexDigits[(bytes[i \div 2] % 16) + 1]]

\* The value of a hex digit of either case, -1 for any other character.
HexVal(c) ==
  IF \E i \in 1..16 : HexDigits[i] = c
    THEN (CHOOSE i \in 1..16 : HexDigits[i] = c) - 1
  ELSE CASE c = "A" -> 10 [] c = "B" -> 11 [] c = "C" -> 12
         [] c = "D" -> 13 [] c = "E" -> 14 [] c = "F" -> 15 [] OTHER -> -1

\* hex::decode: Err for an odd length or a character that is no hex digit.
hex_decode(s) ==
  IF Len(s) % 2 = 0 /\ \A i \in 1..Len(s) : HexVal(s[i]) >= 0
    THEN [ok |-> TRUE,
          bytes |-> [i \in 1..(Len(s) \div 2) |-> HexVal(s[2 * i - 1]) * 16 + HexVal(s[2 * i])]]
    ELSE [ok |-> FALSE, bytes |-> <<>>]

\* Sha256: a stand-in digest of two bytes that depends on every byte of the
\* input and on the position of each.
RECURSIVE WeightedSum(_, _, _, _)
WeightedSum(bytes, weight, lo, hi) ==
  IF lo > hi THEN 0
  ELSE IF lo = hi THEN (bytes[lo] + 1) * (1 + ((lo * weight) % 251))
  ELSE WeightedSum(bytes, weight, lo, (lo + hi) \div 2)
         + WeightedSum(bytes, weight, (lo + hi) \div 2 + 1, hi)

Sha256(bytes) ==
  <<(WeightedSum(bytes, 1, 1, Len(bytes)) + 7) % 256,
    (WeightedSum(bytes, 7, 1, Len(bytes)) + Len(bytes)) % 256>>

\* Signer::sign: the signature of a message under the signer's key, as the
\* pair that a verification of it depends on.
Sign(key, message) == [key |-> key, message |-> message]

(***************************************************************************)
(* httparse: request and status lines with headers                         *)
(***************************************************************************)
None == [some |-> FALSE, v |-> <<>>]

Some(v) == [some |-> TRUE, v |-> v]

UriChars == {Printable[i] : i \in 1..Len(Printable)} \ {" "}

\* A token is made of the visible characters that are no separators.
TokenChars ==
  UriChars \ {" ", "\"", "(", ")", ",", "/", ":", ";", "<", "=", ">", "?", "@", "[", "\\", "]", "{", "}"}

ValueChars == UriChars \cup {" ", "\t"}

\* The position after the run of characters of S that starts at position i.
RECURSIVE SpanEnd(_, _, _)
SpanEnd(s, i, S) == IF i <= Len(s) /\ s[i] \in S THEN SpanEnd(s, i + 1, S) ELSE i

Step(st, next) == [st |-> st, next |-> next]

\* A line end at position i: "\r\n" or "\n".
Newline(s, i) ==
  IF i > Len(s) THEN Step("partial", i)
  ELSE IF s[i] = "\n" THEN Step("ok", i + 1)
  ELSE IF s[i] # "\r" THEN Step("err", i)
  ELSE IF i + 1 > Len(s) THEN Step("partial", i)
  ELSE IF s[i + 1] = "\n" THEN Step("ok", i + 2)
  ELSE Step("err", i)

\* "HTTP/1.0" or "HTTP/1.1" at position i; partial for a proper prefix of one.
HttpVersion(s, i) ==
  LET have == SubSeq(s, i, IF i + 7 <= Len(s) THEN i + 7 ELSE Len(s))
      name == <<"H", "T", "T", "P", "/", "1", ".">>
  IN  IF Len(have) = 8
        THEN IF Take(have, 7) = name /\ have[8] \in {"0", "1"}
               THEN Step("ok", i + 8) ELSE Step("err", i)
      ELSE IF have = Take(name, Len(have)) THEN Step("partial", i)
      ELSE Step("err", i)

\* Header lines up to and including the empty line.
RECURSIVE ParseHeaders(_, _)
ParseHeaders(s, i) ==
  IF i > Len(s) THEN Step("partial", i)
  ELSE IF s[i] \in {"\r", "\n"} THEN Newline(s, i)
  ELSE LET colon == SpanEnd(s, i, TokenChars)
           line == Newline(s, SpanEnd(s, colon + 1, ValueChars))
       IN  IF colon > Len(s) THEN Step("partial", i)
           ELSE IF colon = i \/ s[colon] # ":" THEN Step("err", i)
           ELSE IF line.st # "ok" THEN line
           ELSE ParseHeaders(s, line.next)

Parsed(st, size, method, path) ==
  [st |-> st, size |-> size, method |-> method, path |-> path]

\* Request::parse: method and path are set as soon as they are read, whatever
\* follows them.
RequestParse(buf) ==
  LET m == SpanEnd(buf, 1, TokenChars)
      method == Some(Take(buf, m - 1))
      u == SpanEnd(buf, m + 1, UriChars)
      path == Some(SubSeq(buf, m + 1, u - 1))
      version == HttpVersion(buf, u + 1)
      line == Newline(buf, version.next)
      headers == ParseHeaders(buf, line.next)
  IN  IF m > Len(buf) THEN Parsed("partial", 0, None, None)
      ELSE IF m = 1 \/ buf[m] # " " THEN Parsed("err", 0, None, None)
      ELSE IF u > Len(buf) THEN Parsed("partial", 0, method, None)
      ELSE IF u = m + 1 \/ buf[u] # " " THEN Parsed("err", 0, method, None)
      ELSE IF version.st # "ok" THEN Parsed(version.st, 0, method, path)
      ELSE IF line.st # "ok" THEN Parsed(line.st, 0, method, path)
      ELSE IF headers.st # "ok" THEN Parsed(headers.st, 0, method, path)
      ELSE Parsed("complete", headers.next - 1, method, path)

\* Response::parse: version, status code, optional reason, headers.
ResponseParse(buf) ==
  LET version == HttpVersion(buf, 1)
      code == SubSeq(buf, 10, 12)
      reason == IF Len(buf) >= 13 /\ buf[13] = " " THEN SpanEnd(buf, 14, ValueChars) ELSE 13
      line == Newline(buf, reason)
      headers == ParseHeaders(buf, line.next)
  IN  IF version.st # "ok" THEN Parsed(version.st, 0, None, None)
      ELSE IF Len(buf) < 9 THEN Parsed("partial", 0, None, None)
      ELSE IF buf[9] # " " THEN Parsed("err", 0, None, None)
      ELSE IF ~AllIn(SubSeq(buf, 10, IF Len(buf) < 12 THEN Len(buf) ELSE 12), Digits)
        THEN Parsed("err", 0, None, None)
      ELSE IF Len(buf) < 12 THEN Parsed("partial", 0, None, None)
      ELSE IF line.st # "ok" THEN Parsed(line.st, 0, None, None)
      ELSE IF headers.st # "ok" THEN Parsed(headers.st, 0, None, None)
      ELSE Parsed("complete", headers.next - 1, None, None)

(***************************************************************************)
(* SignedSession                                                           *)
(***************************************************************************)
\* The zero byte, which a TLA+ string literal cannot hold.
NUL == "U+0000"

\* Zeroize::zeroize of a String: every byte of the buffer is overwritten.
zeroize(buf) == [i \in 1..Len(buf) |-> NUL]

\* A loop that signs the transcript-independent claims as one message: every
\* claim gets the signature of the first.
SignAttributesAsOne(key, attributes, attestations) ==
  [k \in {attributes[i] : i \in 1..Len(attributes)} |->
     Sign(key, as_bytes(attributes[1]))]

\* for attribute in attributes { attestations.insert(attribute, sign(..)) }
RECURSIVE SignAttributes(_, _, _)
SignAttributes(key, attributes, attestations) ==
  IF attributes = <<>> THEN attestations
  ELSE SignAttributes(key, Tail(attributes),
         (Head(attributes) :> Sign(key, as_bytes(Head(attributes)))) @@ attestations)

\* The transcript with the response first.
SessionDataReversed(req_bytes, resp_bytes) == resp_bytes \o req_bytes

\* data.extend_from_slice(req_bytes); data.extend_from_slice(resp_bytes)
SessionData(req_bytes, resp_bytes) == req_bytes \o resp_bytes

\* The SignedSession built in the block that finalize polls with the muxer.
MakeSignedSession(key, req_bytes, resp_bytes, attestations) ==
  LET data == SessionData(req_bytes, resp_bytes)
      hash == Sha256(data)
  IN  [application_signed_data |-> hex_encode(hash),
       signature |-> Sign(key, hash),
       attestations |-> attestations,
       application_data |-> hex_encode(data)]

(***************************************************************************)
(* Verification: util.rs verify_signature and the wasm entry points        *)
(***************************************************************************)
Base64Chars ==
  <<
    "A", "B", "C", "D", "E", "F", "G", "H", "I", "J", "K", "L", "M", "N", "O", "P",
    "Q", "R", "S", "T", "U", "V", "W", "X", "Y", "Z", "a", "b", "c", "d", "e", "f",
    "g", "h", "i", "j", "k", "l", "m", "n", "o", "p", "q", "r", "s", "t", "u", "v",
    "w", "x", "y", "z", "0", "1", "2", "3", "4", "5", "6", "7", "8", "9", "+", "/"
  >>

Base64Val(c) ==
  IF c = "=" THEN 0 ELSE (CHOOSE i \in 1..64 : Base64Chars[i] = c) - 1

\* general_purpose::STANDARD.decode: groups of four characters of the
\* alphabet, the last group padded with "=".
base64_decode(s) ==
  LET pad == IF Len(s) >= 2 /\ s[Len(s)] = "=" /\ s[Len(s) - 1] = "=" THEN 2
             ELSE IF Len(s) >= 1 /\ s[Len(s)] = "=" THEN 1
             ELSE 0
      Group(k) == Base64Val(s[4 * k - 3]) * 262144 + Base64Val(s[4 * k - 2]) * 4096
                    + Base64Val(s[4 * k - 1]) * 64 + Base64Val(s[4 * k])
      Shift(j) == CASE j = 0 -> 65536 [] j = 1 -> 256 [] j = 2 -> 1
  IN  IF /\ Len(s) % 4 = 0
         /\ \A i \in 1..(Len(s) - pad) : \E k \in 1..64 : Base64Chars[k] = s[i]
        THEN [ok |-> TRUE,
              bytes |-> [i \in 1..(3 * (Len(s) \div 4) - pad) |->
                           (Group((i + 2) \div 3) \div Shift((i - 1) % 3)) % 256]]
        ELSE [ok |-> FALSE, bytes |-> <<>>]

\* base64::encode
base64_encode(bytes) ==
  LET Byte(i) == IF i <= Len(bytes) THEN bytes[i] ELSE 0
      Group(k) == Byte(3 * k - 2) * 65536 + Byte(3 * k - 1) * 256 + Byte(3 * k)
      Shift(j) == CASE j = 0 -> 262144 [] j = 1 -> 4096 [] j = 2 -> 64 [] j = 3 -> 1
      groups == (Len(bytes) + 2) \div 3
      pad == 3 * groups - Len(bytes)
  IN  [i \in 1..(4 * groups) |->
         IF i > 4 * groups - pad THEN "="
         ELSE Base64Chars[((Group((i + 3) \div 4) \div Shift((i - 1) % 4)) % 64) + 1]]

\* VerifyingKey::from_sec1_bytes, for a curve with the points 1 and 2: the tag
\* 4 of an uncompressed point and the point.
from_sec1_bytes(bytes) ==
  IF Len(bytes) = 2 /\ bytes[1] = 4 /\ bytes[2] \in {1, 2}
    THEN [ok |-> TRUE, key |-> bytes[2]]
    ELSE [ok |-> FALSE, key |-> 0]

Sec1Bytes(key) == <<4, key>>

\* Signature::from_slice: a fixed-width signature, r of one byte that is not 0
\* and s of the width of a digest.
from_slice(bytes) ==
  IF Len(bytes) = 3 /\ bytes[1] # 0
    THEN [ok |-> TRUE, r |-> bytes[1], s |-> Drop(bytes, 1)]
    ELSE [ok |-> FALSE, r |-> 0, s |-> <<>>]

\* The fixed-width bytes of the signature of a message (hashed by the signer)
\* under a key.
SignatureBytes(key, message) == <<key>> \o Sha256(message)

\* VerifyingKey::verify(message, signature).is_ok()
Verify(key, message, signature) == signature.r = key /\ signature.s = Sha256(message)

Returned(val) == [st |-> "returned", val |-> val, msg |-> ""]

Panicked(msg) == [st |-> "panic", val |-> FALSE, msg |-> msg]

\* util.rs verify_signature
verify_signature(hex_raw_signature, hex_raw_public_key, hex_application_data) ==
  LET bytes_public_key == hex_decode(hex_raw_public_key)
      verifying_key == from_sec1_bytes(bytes_public_key.bytes)
      signature_bytes == hex_decode(hex_raw_signature)
      signature == from_slice(signature_bytes.bytes)
      application_data == hex_decode(hex_application_data)
  IN  IF ~bytes_public_key.ok THEN Panicked("decode public key failed")
      ELSE IF ~verifying_key.ok THEN Returned(FALSE)
      ELSE IF ~signature_bytes.ok THEN Panicked("decode signature failed")
      ELSE IF ~signature.ok THEN Returned(FALSE)
      ELSE IF ~application_data.ok THEN Returned(FALSE)
      ELSE Returned(Verify(verifying_key.key, application_data.bytes, signature))

\* wasm verify_attestation_signature
verify_attestation_signature(hex_application_data, hex_raw_signature, hex_raw_public_key, hash_appdata) ==
  LET bytes_public_key == hex_decode(hex_raw_public_key)
      verifying_key == from_sec1_bytes(bytes_public_key.bytes)
      signature_bytes == hex_decode(hex_raw_signature)
      signature == from_slice(signature_bytes.bytes)
      decoded == hex_decode(hex_application_data)
      application_data == IF hash_appdata THEN Sha256(decoded.bytes) ELSE decoded.bytes
  IN  IF ~bytes_public_key.ok THEN Panicked("decode public key failed")
      ELSE IF ~verifying_key.ok THEN Panicked("decode P256 public key failed")
      ELSE IF ~signature_bytes.ok THEN Panicked("decode signature failed")
      ELSE IF ~signature.ok THEN Panicked("Failed to decode signature")
      ELSE IF ~decoded.ok THEN Panicked("decode hex app data failed")
      ELSE Returned(Verify(verifying_key.key, application_data, signature))

\* parse_verify_with, for documents of the bytes
\*   <<chain, nonce, not_after>> \o pcr0 \o pcr1 \o ...
\* with chain = 1 for a document whose signature chain verifies and registers
\* of three bytes each: Ok with the registers when the chain verifies, the
\* nonce is the expected one and the timestamp is not after not_after.
parse_verify_with(document, nonce, timestamp) ==
  IF /\ Len(document) >= 3
     /\ (Len(document) - 3) % 3 = 0
     /\ document[1] = 1
     /\ nonce = <<document[2]>>
     /\ timestamp <= document[3]
    THEN [ok |-> TRUE,
          pcrs |-> [i \in 0..(((Len(document) - 3) \div 3) - 1) |->
                      SubSeq(document, 4 + 3 * i, 6 + 3 * i)]]
    ELSE [ok |-> FALSE, pcrs |-> <<>>]

\* wasm verify_attestation_document
verify_attestation_document(attestation_document, nonce_expected, pcr_expected, timestamp) ==
  LET document == base64_decode(attestation_document)
      nonce == hex_decode(nonce_expected)
      verify_result == parse_verify_with(document.bytes, nonce.bytes, timestamp)
  IN  IF ~document.ok THEN Panicked("failed to decode document")
      ELSE IF ~nonce.ok THEN Panicked("decode nonce failed")
      ELSE IF ~verify_result.ok THEN Returned(FALSE)
      ELSE IF 2 \notin DOMAIN verify_result.pcrs THEN Panicked("index out of bounds")
      ELSE Returned(base64_encode(verify_result.pcrs[2]) = pcr_expected)

(***************************************************************************)
(* The configuration and the inputs of the model                           *)
(***************************************************************************)
\* {c: x}
RuleC == <<"{", "c", ":", " ", "x", "}">>

Path_a == <<"/", "a">>

Path_b == <<"/", "b">>

ProvA ==
  [method |-> <<"G", "E", "T">>, id |-> 1, url_regex |-> Path_a, host |-> "api.github.com",
   preprocess |-> NoPreprocess,
   \* {a: x, b: y}, an empty rule, {c: x}
   attributes |-> << <<"{", "a", ":", " ", "x", ",", " ", "b", ":", " ", "y", "}">>, <<>>, RuleC >>]

\* A second provider configured with the id of ProvA.
ProvDup ==
  [method |-> <<"G", "E", "T">>, id |-> 1, url_regex |-> Path_b, host |-> "api.github.com",
   preprocess |-> SomePreprocess(""),
   attributes |-> <<RuleC>>]

ProvB ==
  [method |-> <<"G", "E", "T">>, id |-> 2, url_regex |-> <<"/", ".">>, host |-> "secure.ssa.gov",
   preprocess |-> SomePreprocess("parse"),
   \* {a: x, a: y} and {o: to_number(y) >U+006010U+0060 && x == U+00601U+0060}
   attributes |->
     << <<"{", "a", ":", " ", "x", ",", " ", "a", ":", " ", "y", "}">>,
        <<"{", "o", ":", " ", "t", "o", "_", "n", "u", "m", "b", "e", "r", "(", "y", ")", " ",
          ">", Backtick, "1", "0", Backtick, " ", "&", "&", " ",
          "x", " ", "=", "=", " ", Backtick, "1", Backtick, "}">> >>]

ProvLower ==
  [method |-> <<"g", "e", "t">>, id |-> 3, url_regex |-> <<"(", "/", "a", ")">>, host |-> "api.github.com",
   preprocess |-> SomePreprocess("throw"),
   \* {c: x} and  {d: z.w}  between spaces
   attributes |-> << RuleC, <<" ", "{", "d", ":", " ", "z", ".", "w", "}", " ">> >>]

\* A provider whose url_regex does not compile.
ProvBad ==
  [method |-> <<"G", "E", "T">>, id |-> 4, url_regex |-> <<"(", "a">>, host |-> "api.github.com",
   preprocess |-> SomePreprocess("fault"),
   \* {e: x == U+0060}
   attributes |-> << <<"{", "e", ":", " ", "x", " ", "=", "=", " ", Backtick, "}">> >>]

ProviderUniverse ==
  {ProvA, ProvDup, ProvB, ProvLower, ProvBad,
   [method |-> <<"G", "E", "T">>, id |-> 5, url_regex |-> Path_b, host |-> "x.com",
    preprocess |-> SomePreprocess("parse"),
    attributes |-> <<>>],
   [method |-> <<"G", "E", "T">>, id |-> 6, url_regex |-> Path_b, host |-> "api.github.com",
    preprocess |-> SomePreprocess("count"),
    attributes |-> <<>>]}

MaxProviders == 2

NThreads == 2

Threads == 1..NThreads

\* Config.providers: any list of at most MaxProviders providers.
Configs == UNION {[1..k -> {ProvA, ProvDup, ProvLower, ProvBad}] : k \in 0..MaxProviders}

Urls == {Path_a, Path_b}

Methods == {<<"G", "E", "T">>, <<"g", "e", "t">>}

Body1 == <<"{", "\"", "x", "\"", ":", "1", ",", "\"", "y", "\"", ":", "\"", "1", "2", "\"", "}">>

Body2 == <<"{", "\"", "x", "\"", ":", "\"", "a", "\"", ",", "\"", "y", "\"", ":", "[", "1", "]", "}">>

BodyHtml == <<"<", "h", "t", "m", "l",  ">" >>

\* The response bodies: objects, a page that is no JSON, a JSON string, an
\* object between spaces, an object between chunk sizes, braces in the wrong
\* order, a string with a quote and an escape, an object with a quote and
\* an escaped backslash followed by a tab, a carriage return and a newline,
\* and the empty body.
Bodies ==
  {Body1, Body2, BodyHtml,
   <<"\"", "{", "}", "\"">>,
   <<" ", "{", "}", " ">>,
   <<"1", "e", "\n", "{", "\"", "x", "\"", ":", "1", ".", "0", "}", "\n", "0">>,
   <<"}", " ", "{">>,
   <<"{", "\"", "x", "\"", ":", "\"", "'", "\\", "t", "\"", "}">>,
   <<"{", "\"", "x", "\"", ":", "\"", "'", "\\", "\\", "\"", "}", "\t", "\r", "\n">>,
   <<>>}

\* The inputs of get_attributes: the values of preprocessed bodies.
DataSet == {ParseJson(Body1).val, ParseJson(Body2).val, JString(<<"{", "}">>)}

\* The providers whose attributes are evaluated.
AttributeProviders == {ProvA, ProvDup, ProvB, ProvBad}

\* The request buffers:
\*   GET /a HTTP/1.1 CRLF CRLF
\*   GET /b HTTP/1.1 CRLF h: v CRLF CRLF
\*   get /a HTTP/1.1 CRLF CRLF
\*   GET /a HTTP/1.1 CRLF          (the end of the headers not received)
\*   GET                           (nothing after the method)
\*   GET /a FTP/1.1 CRLF
Requests ==
  {<<"G", "E", "T", " ", "/", "a", " ", "H", "T", "T", "P", "/", "1", ".", "1", "\r", "\n", "\r", "\n">>,
   <<"G", "E", "T", " ", "/", "b", " ", "H", "T", "T", "P", "/", "1", ".", "1", "\r", "\n",
     "h", ":", " ", "v", "\r", "\n", "\r", "\n">>,
   <<"g", "e", "t", " ", "/", "a", " ", "H", "T", "T", "P", "/", "1", ".", "1", "\r", "\n", "\r", "\n">>,
   <<"G", "E", "T", " ", "/", "a", " ", "H", "T", "T", "P", "/", "1", ".", "1", "\r", "\n">>,
   <<"G", "E", "T">>,
   <<"G", "E", "T", " ", "/", "a", " ", "F", "T", "P", "/", "1", ".", "1", "\r", "\n">>}

\* HTTP/1.1 200 OK CRLF CRLF
StatusOk == <<"H", "T", "T", "P", "/", "1", ".", "1", " ", "2", "0", "0", " ", "O", "K", "\r", "\n", "\r", "\n">>

\* The response buffers: two complete responses, a status line followed by a
\* header whose line is not complete, and FTP/1.1 200 OK.
Responses ==
  {StatusOk \o Body1, StatusOk \o BodyHtml,
   <<"H", "T", "T", "P", "/", "1", ".", "1", " ", "2", "0", "0", " ", "O", "K", "\r", "\n", "h", ":", " ", "v">>,
   <<"F", "T", "P", "/", "1", ".", "1", " ", "2", "0", "0", " ", "O", "K">>}

\* The expressions given to evaluate_field_expression:
\*   x
\*   a.code      (between spaces)
\*   a.b.c
\*   q
\*   to_number(x)
\*   to_number(s)
\*   to_number(to_number(s))
\*   to_number(n)
\*   to_number(t)
\*   to_number(a.amount) >`10000` && a.code == 'USD'
\*   t && f
\*   f && q
\*   q && f
\*   x && t
\*   t && x
\*   x && s
\*   t && t && f
\*   s == `a>b`
\*   s == `a&&b`
\*   to_number(x >0)
\*   x >0 == 'true'
\*   x == 1
\*   x > 0
\*   length(s)
\*   x > x
\*   x >`a`
\*   x > nan
\*   x == 7
\*   x == '1'
\*   s == 12
\*   s == '12'
\*   t == true
\*   q == 1
\*   to_number(s) == 12
\*   s == "12"
\*   a.code == USD
\*   length(x)
\*   length(q)
\*   length(a.b.c)
\*   length(length(s))
\*   length(f)
\*   length(a)
\*   (x == 1
\*   x) > 0
\*    == 1
\*   x == 
\*   x >
\*   && t
\*   x == `
\*   x == '
\*   x > "
\*   length(s) == `2`
\*   x == `1`
\*   length(x) == 2
EvalExpressions ==
  {<<"x">>,
   <<" ", "a", ".", "c", "o", "d", "e", " ">>,
   <<"a", ".", "b", ".", "c">>,
   <<"q">>,
   <<"t", "o", "_", "n", "u", "m", "b", "e", "r", "(", "x", ")">>,
   <<"t", "o", "_", "n", "u", "m", "b", "e", "r", "(", "s", ")">>,
   <<"t", "o", "_", "n", "u", "m", "b", "e", "r", "(", "t", "o", "_", "n", "u", "m", "b", "e",
     "r", "(", "s", ")", ")">>,
   <<"t", "o", "_", "n", "u", "m", "b", "e", "r", "(", "n", ")">>,
   <<"t", "o", "_", "n", "u", "m", "b", "e", "r", "(", "t", ")">>,
   <<"t", "o", "_", "n", "u", "m", "b", "e", "r", "(", "a", ".", "a", "m", "o", "u", "n", "t",
     ")", " ", ">", Backtick, "1", "0", "0", "0", "0", Backtick, " ", "&", "&", " ", "a", ".",
     "c", "o", "d", "e", " ", "=", "=", " ", "'", "U", "S", "D", "'">>,
   <<"t", " ", "&", "&", " ", "f">>,
   <<"f", " ", "&", "&", " ", "q">>,
   <<"q", " ", "&", "&", " ", "f">>,
   <<"x", " ", "&", "&", " ", "t">>,
   <<"t", " ", "&", "&", " ", "x">>,
   <<"x", " ", "&", "&", " ", "s">>,
   <<"t", " ", "&", "&", " ", "t", " ", "&", "&", " ", "f">>,
   <<"s", " ", "=", "=", " ", Backtick, "a", ">", "b", Backtick>>,
   <<"s", " ", "=", "=", " ", Backtick, "a", "&", "&", "b", Backtick>>,
   <<"t", "o", "_", "n", "u", "m", "b", "e", "r", "(", "x", " ", ">", "0", ")">>,
   <<"x", " ", ">", "0", " ", "=", "=", " ", "'", "t", "r", "u", "e", "'">>,
   <<"x", " ", "=", "=", " ", "1">>,
   <<"x", " ", ">", " ", "0">>,
   <<"l", "e", "n", "g", "t", "h", "(", "s", ")">>,
   <<"x", " ", ">", " ", "x">>,
   <<"x", " ", ">", Backtick, "a", Backtick>>,
   <<"x", " ", ">", " ", "n", "a", "n">>,
   <<"x", " ", "=", "=", " ", "7">>,
   <<"x", " ", "=", "=", " ", "'", "1", "'">>,
   <<"s", " ", "=", "=", " ", "1", "2">>,
   <<"s", " ", "=", "=", " ", "'", "1", "2", "'">>,
   <<"t", " ", "=", "=", " ", "t", "r", "u", "e">>,
   <<"q", " ", "=", "=", " ", "1">>,
   <<"t", "o", "_", "n", "u", "m", "b", "e", "r", "(", "s", ")", " ", "=", "=", " ", "1", "2">>,
   <<"s", " ", "=", "=", " ", "\"", "1", "2", "\"">>,
   <<"a", ".", "c", "o", "d", "e", " ", "=", "=", " ", "U", "S", "D">>,
   <<"l", "e", "n", "g", "t", "h", "(", "x", ")">>,
   <<"l", "e", "n", "g", "t", "h", "(", "q", ")">>,
   <<"l", "e", "n", "g", "t", "h", "(", "a", ".", "b", ".", "c", ")">>,
   <<"l", "e", "n", "g", "t", "h", "(", "l", "e", "n", "g", "t", "h", "(", "s", ")", ")">>,
   <<"l", "e", "n", "g", "t", "h", "(", "f", ")">>,
   <<"l", "e", "n", "g", "t", "h", "(", "a", ")">>,
   <<"(", "x", " ", "=", "=", " ", "1">>,
   <<"x", ")", " ", ">", " ", "0">>,
   <<" ", "=", "=", " ", "1">>,
   <<"x", " ", "=", "=", " ">>,
   <<"x", " ", ">">>,
   <<"&", "&", " ", "t">>,
   <<"x", " ", "=", "=", " ", Backtick>>,
   <<"x", " ", "=", "=", " ", "'">>,
   <<"x", " ", ">", " ", "\"">>,
   <<"l", "e", "n", "g", "t", "h", "(", "s", ")", " ", "=", "=", " ", Backtick, "2", Backtick>>,
   <<"x", " ", "=", "=", " ", Backtick, "1", Backtick>>,
   <<"l", "e", "n", "g", "t", "h", "(", "x", ")", " ", "=", "=", " ", "2">>}

\* The tokens parse_literal_value is applied to:
\*   [`10000`]
\*   [`abc`]
\*   [`nan`]
\*   [`-inf`]
\*   [``]
\*   [12]
\*   [-3]
\*   [ 7 ]
\*   [nan]
\*   [Infinity]
\*   ['USD']
\*   ["USD"]
\*   ['a"]
\*   ['5']
\*   [`5]
\*   [x]
\*   [a.code]
\*   []
\*   [`]
\*   [']
\*   ["]
LiteralTokens ==
  {<<Backtick, "1", "0", "0", "0", "0", Backtick>>,
   <<Backtick, "a", "b", "c", Backtick>>,
   <<Backtick, "n", "a", "n", Backtick>>,
   <<Backtick, "-", "i", "n", "f", Backtick>>,
   <<Backtick, Backtick>>,
   <<"1", "2">>,
   <<"-", "3">>,
   <<" ", "7", " ">>,
   <<"n", "a", "n">>,
   <<"I", "n", "f", "i", "n", "i", "t", "y">>,
   <<"'", "U", "S", "D", "'">>,
   <<"\"", "U", "S", "D", "\"">>,
   <<"'", "a", "\"">>,
   <<"'", "5", "'">>,
   <<Backtick, "5">>,
   <<"x">>,
   <<"a", ".", "c", "o", "d", "e">>,
   <<>>,
   <<Backtick>>,
   <<"'">>,
   <<"\"">>}

\* The rule contents split_attribute_fields is applied to:
\*   [a: x, b: y]
\*   [a: f(x, y), b: z]
\*   [a: x == `1,2`, b: y]
\*   [ , a: x,, ]
\*   []
\*   [a: (x, b: y]
\*   [a: x), b: y]
\*   [a: `(`, b: y]
\*   [a: `)`, b: (y, c)]
\*   [a:x,b:`y]
\*   [a: f(g(x, y), z) , b: w ,]
SplitContents ==
  {<<"a", ":", " ", "x", ",", " ", "b", ":", " ", "y">>,
   <<"a", ":", " ", "f", "(", "x", ",", " ", "y", ")", ",", " ", "b", ":", " ", "z">>,
   <<"a", ":", " ", "x", " ", "=", "=", " ", Backtick, "1", ",", "2", Backtick, ",", " ", "b", ":", " ", "y">>,
   <<" ", ",", " ", "a", ":", " ", "x", ",", ",", " ">>,
   <<>>,
   <<"a", ":", " ", "(", "x", ",", " ", "b", ":", " ", "y">>,
   <<"a", ":", " ", "x", ")", ",", " ", "b", ":", " ", "y">>,
   <<"a", ":", " ", Backtick, "(", Backtick, ",", " ", "b", ":", " ", "y">>,
   <<"a", ":", " ", Backtick, ")", Backtick, ",", " ", "b", ":", " ", "(", "y", ",", " ", "c", ")">>,
   <<"a", ":", "x", ",", "b", ":", Backtick, "y">>,
   <<"a", ":", " ", "f", "(", "g", "(", "x", ",", " ", "y", ")", ",", " ", "z", ")", " ", ",", " ", "b", ":", " ", "w", " ", ",">>}

\* The data the expressions are evaluated against:
\*   {"a":{"amount":"15000","code":"USD"},"x":1,"s":"12","t":true,"f":false,"n":"NaN"}
\*   {"a":{"amount":"5","code":"USD"},"x":0,"s":"a>b","t":false,"f":false,"n":"-inf"}
\*   {"a":{"amount":15000,"code":"EUR"},"x":"7","s":"a&&b","t":true,"f":true,"n":"abc"}
\*   {"a":{"b":{"c":[1,2]}},"x":true,"s":[1,2],"t":1,"f":null,"n":"Infinity"}
\*   "{}"
\*   {"a":{"b":{"c":"<U+00E9><U+00E9>"}},"x":[],"s":"a<U+00E9>b","t":"","f":"<U+00E9>"}
EvalData ==
  {ParseJson(
     <<"{", "\"", "a", "\"", ":", "{", "\"", "b", "\"", ":", "{", "\"", "c", "\"", ":", "\"", EAcute, EAcute, "\"", "}", "}", ",", "\"", "x", "\"", ":", "[", "]", ",", "\"", "s", "\"", ":", "\"", "a", EAcute, "b", "\"", ",", "\"", "t", "\"", ":", "\"", "\"", ",", "\"", "f", "\"", ":", "\"", EAcute, "\"", "}">>).val,
   ParseJson(
     <<"{", "\"", "a", "\"", ":", "{", "\"", "a", "m", "o", "u", "n", "t", "\"", ":", "\"",
       "1", "5", "0", "0", "0", "\"", ",", "\"", "c", "o", "d", "e", "\"", ":", "\"", "U", "S",
       "D", "\"", "}", ",", "\"", "x", "\"", ":", "1", ",", "\"", "s", "\"", ":", "\"", "1",
       "2", "\"", ",", "\"", "t", "\"", ":", "t", "r", "u", "e", ",", "\"", "f", "\"", ":",
       "f", "a", "l", "s", "e", ",", "\"", "n", "\"", ":", "\"", "N", "a", "N", "\"", "}">>).val,
   ParseJson(
     <<"{", "\"", "a", "\"", ":", "{", "\"", "a", "m", "o", "u", "n", "t", "\"", ":", "\"",
       "5", "\"", ",", "\"", "c", "o", "d", "e", "\"", ":", "\"", "U", "S", "D", "\"", "}",
       ",", "\"", "x", "\"", ":", "0", ",", "\"", "s", "\"", ":", "\"", "a", ">", "b", "\"",
       ",", "\"", "t", "\"", ":", "f", "a", "l", "s", "e", ",", "\"", "f", "\"", ":", "f", "a",
       "l", "s", "e", ",", "\"", "n", "\"", ":", "\"", "-", "i", "n", "f", "\"", "}">>).val,
   ParseJson(
     <<"{", "\"", "a", "\"", ":", "{", "\"", "a", "m", "o", "u", "n", "t", "\"", ":", "1", "5",
       "0", "0", "0", ",", "\"", "c", "o", "d", "e", "\"", ":", "\"", "E", "U", "R", "\"", "}",
       ",", "\"", "x", "\"", ":", "\"", "7", "\"", ",", "\"", "s", "\"", ":", "\"", "a", "&",
       "&", "b", "\"", ",", "\"", "t", "\"", ":", "t", "r", "u", "e", ",", "\"", "f", "\"",
       ":", "t", "r", "u", "e", ",", "\"", "n", "\"", ":", "\"", "a", "b", "c", "\"", "}">>).val,
   ParseJson(
     <<"{", "\"", "a", "\"", ":", "{", "\"", "b", "\"", ":", "{", "\"", "c", "\"", ":", "[",
       "1", ",", "2", "]", "}", "}", ",", "\"", "x", "\"", ":", "t", "r", "u", "e", ",", "\"",
       "s", "\"", ":", "[", "1", ",", "2", "]", ",", "\"", "t", "\"", ":", "1", ",", "\"", "f",
       "\"", ":", "n", "u", "l", "l", ",", "\"", "n", "\"", ":", "\"", "I", "n", "f", "i", "n",
       "i", "t", "y", "\"", "}">>).val,
   ParseJson(
     <<"\"", "{", "}", "\"">>).val}

\* The inputs of the verification functions: well-formed and malformed.
Message == <<5, 6>>

PublicKeyInputs ==
  {hex_encode(Sec1Bytes(1)), hex_encode(Sec1Bytes(2)), hex_encode(<<5, 1>>),
   <<"0", "4", "z", "z">>, <<"0", "4", "0">>}

SignatureInputs ==
  {hex_encode(SignatureBytes(1, Message)), hex_encode(SignatureBytes(1, Sha256(Message))),
   hex_encode(<<0, 1, 2>>), hex_encode(<<1>>), <<"z", "z">>}

MessageInputs == {hex_encode(Message), hex_encode(<<5, 7>>), <<"0", "5", "0", "g">>}

\* Documents with three registers, with two, and with a chain that does not
\* verify; a text that is no base64.
DocumentInputs ==
  {base64_encode(<<1, 9, 5, 1, 1, 1, 2, 2, 2, 3, 3, 3>>),
   base64_encode(<<1, 9, 5, 1, 1, 1, 2, 2, 2>>),
   base64_encode(<<0, 9, 5, 1, 1, 1, 2, 2, 2, 3, 3, 3>>),
   <<"!", "!", "!", "!">>}

NonceInputs == {<<"0", "9">>, <<"0", "a">>, <<"0", "g">>}

PcrInputs == {base64_encode(<<3, 3, 3>>), base64_encode(<<2, 2, 2>>)}

TimestampInputs == {4, 6}

(***************************************************************************)
(* State                                                                   *)
(***************************************************************************)
VARIABLES
  config,                     \* Processor.config.providers
  COMPILED_REGEX_CACHE,       \* per thread: provider id -> compiled regex
  COMPILED_ATTRIBUTES_CACHE,  \* per thread: provider id -> rule strings
  COMPILED_PREPROCESS_CACHE,  \* per thread: provider id -> interpreter context
  ret,                        \* the last call of a provider function and its outcome
  first_attributes,           \* per thread: provider id -> the first provider of
                              \* that id given to get_attributes (history)
  pc,                         \* finalize: where the future stands
  request_data,               \* finalize: the request buffer of the Notarize state
  response_data,              \* finalize: the response buffer of the Notarize state
  frame,                      \* finalize: its locals, mux_fut and the muxer among them
  signed_session,             \* finalize: the SignedSession it built
  io,                         \* the messages sent to the prover
  result                      \* what finalize returned

cacheVars ==
  <<COMPILED_REGEX_CACHE, COMPILED_ATTRIBUTES_CACHE, COMPILED_PREPROCESS_CACHE, first_attributes>>

finalizeVars == <<pc, request_data, response_data, frame, signed_session, io, result>>

vars == <<config, COMPILED_REGEX_CACHE, COMPILED_ATTRIBUTES_CACHE, COMPILED_PREPROCESS_CACHE,
          ret, first_attributes,
          pc, request_data, response_data, frame, signed_session, io, result>>

NoCall == [op |-> "none"]

\* thread_local!: every thread starts with empty caches.
EmptyCaches ==
  /\ COMPILED_REGEX_CACHE = [t \in Threads |-> <<>>]
  /\ COMPILED_ATTRIBUTES_CACHE = [t \in Threads |-> <<>>]
  /\ COMPILED_PREPROCESS_CACHE = [t \in Threads |-> <<>>]
  /\ first_attributes = [t \in Threads |-> <<>>]

NoFrame ==
  [thread |-> 0, req_bytes |-> <<>>, resp_bytes |-> <<>>, path |-> None, method |-> None,
   body |-> <<>>, attributes |-> <<>>, attestations |-> <<>>,
   mux_fut |-> "running", mux_closed |-> FALSE]

NoSession == MakeSignedSession("", <<>>, <<>>, <<>>)

NoResult == [st |-> "none", error |-> "", session |-> NoSession]

\* No finalize is in progress.
NoFinalize ==
  /\ pc = "off"
  /\ request_data = <<>>
  /\ response_data = <<>>
  /\ frame = NoFrame
  /\ signed_session = NoSession
  /\ io = <<>>
  /\ result = NoResult

(***************************************************************************)
(* Provider matching: the calls of one thread on one configuration         *)
(***************************************************************************)
InitMatch ==
  /\ config \in Configs
  /\ EmptyCaches
  /\ ret = NoCall
  /\ NoFinalize

CallFindProvider(t, url, method) ==
  LET r == find_provider(config, COMPILED_REGEX_CACHE[t], url, method)
  IN  /\ COMPILED_REGEX_CACHE' = [COMPILED_REGEX_CACHE EXCEPT ![t] = r.cache]
      /\ ret' = [op |-> "find_provider", thread |-> t, url |-> url, method |-> method,
                 st |-> r.st, idx |-> r.idx]
      /\ UNCHANGED <<config, COMPILED_ATTRIBUTES_CACHE, COMPILED_PREPROCESS_CACHE,
                     first_attributes, finalizeVars>>

CallCheckUrlMethod(t, i, url, method) ==
  LET r == check_url_method(config[i], COMPILED_REGEX_CACHE[t], url, method)
  IN  /\ COMPILED_REGEX_CACHE' = [COMPILED_REGEX_CACHE EXCEPT ![t] = r.cache]
      /\ ret' = [op |-> "check_url_method", thread |-> t, url |-> url, method |-> method,
                 st |-> r.st, idx |-> i, val |-> r.val]
      /\ UNCHANGED <<config, COMPILED_ATTRIBUTES_CACHE, COMPILED_PREPROCESS_CACHE,
                     first_attributes, finalizeVars>>

NextMatch ==
  \/ \E url \in Urls, method \in Methods : CallFindProvider(1, url, method)
  \/ \E i \in DOMAIN config, url \in Urls, method \in Methods :
       CallCheckUrlMethod(1, i, url, method)

SpecMatch == InitMatch /\ [][NextMatch]_vars

(***************************************************************************)
(* Preprocessing and attributes: the calls of one thread                   *)
(***************************************************************************)
InitAttributes ==
  /\ config = <<>>
  /\ EmptyCaches
  /\ ret = NoCall
  /\ NoFinalize

\* A call of get_attributes with one cache for the whole process in place of
\* the thread-local one.
CallGetAttributesShared(t, p, data) ==
  \E r \in {get_attributes(p, COMPILED_ATTRIBUTES_CACHE[1], data)} :
    \E o \in r.outs :
      /\ COMPILED_ATTRIBUTES_CACHE' = [u \in Threads |-> r.cache]
      /\ first_attributes' =
           [first_attributes EXCEPT
              ![t] = IF p.id \in DOMAIN @ THEN @ ELSE (p.id :> p) @@ @]
      /\ ret' = [op |-> "get_attributes", thread |-> t, provider |-> p, data |-> data,
                 rules |-> r.rules, st |-> o.st, list |-> o.list,
                 msg |-> o.msg, arg |-> o.arg]
      /\ UNCHANGED <<config, COMPILED_REGEX_CACHE, COMPILED_PREPROCESS_CACHE, finalizeVars>>

CallGetAttributes(t, p, data) ==
  \E r \in {get_attributes(p, COMPILED_ATTRIBUTES_CACHE[t], data)} :
    \E o \in r.outs :
      /\ COMPILED_ATTRIBUTES_CACHE' = [COMPILED_ATTRIBUTES_CACHE EXCEPT ![t] = r.cache]
      /\ first_attributes' =
           [first_attributes EXCEPT
              ![t] = IF p.id \in DOMAIN @ THEN @ ELSE (p.id :> p) @@ @]
      /\ ret' = [op |-> "get_attributes", thread |-> t, provider |-> p, data |-> data,
                 rules |-> r.rules, st |-> o.st, list |-> o.list,
                 msg |-> o.msg, arg |-> o.arg]
      /\ UNCHANGED <<config, COMPILED_REGEX_CACHE, COMPILED_PREPROCESS_CACHE, finalizeVars>>

\* A call that takes the interpreter context of the provider's id from
\* COMPILED_PREPROCESS_CACHE and stores the context back after the run.
CallPreprocessResponseCached(t, p, response) ==
  \E context \in {IF p.id \in DOMAIN COMPILED_PREPROCESS_CACHE[t]
                     THEN COMPILED_PREPROCESS_CACHE[t][p.id] ELSE ContextDefault} :
    \E r \in {IF p.preprocess.some /\ p.preprocess.script # ""
                THEN preprocess_in(p, response, context)
                ELSE [context |-> context, out |-> ParseOrDefault(response)]} :
      /\ ret' = [op |-> "preprocess_response", thread |-> t, provider |-> p,
                 response |-> response, st |-> r.out.st, val |-> r.out.val,
                 kind |-> r.out.kind, msg |-> r.out.msg, detail |-> r.out.detail,
                 again |-> ret.op = "preprocess_response" /\ ret.provider = p]
      /\ COMPILED_PREPROCESS_CACHE' =
           [COMPILED_PREPROCESS_CACHE EXCEPT
              ![t] = (p.id :> r.context) @@ @]
      /\ UNCHANGED <<config, COMPILED_REGEX_CACHE, COMPILED_ATTRIBUTES_CACHE,
                     first_attributes, finalizeVars>>

\* A call of preprocess_response on thread t.  again tells that the call
\* before it was a call of preprocess_response for the same provider.
CallPreprocessResponse(t, p, response) ==
  \E r \in {preprocess_response(p, response)} :
    /\ ret' = [op |-> "preprocess_response", thread |-> t, provider |-> p,
               response |-> response, st |-> r.st, val |-> r.val, kind |-> r.kind,
               msg |-> r.msg, detail |-> r.detail,
               again |-> ret.op = "preprocess_response" /\ ret.provider = p]
    /\ UNCHANGED <<config, cacheVars, finalizeVars>>

NextAttributes ==
  \/ \E p \in AttributeProviders, data \in DataSet : CallGetAttributes(1, p, data)
  \/ \E p \in ProviderUniverse, response \in Bodies : CallPreprocessResponse(1, p, response)

SpecAttributes == InitAttributes /\ [][NextAttributes]_vars

(***************************************************************************)
(* The caches of several threads                                           *)
(***************************************************************************)
\* Every thread calls check_url_method and get_attributes for the providers
\* of one configuration, in any interleaving.  A call works on the
\* thread_local! statics of its own thread only, so the calls of different
\* threads commute and each call is one step.  get_attributes is called for
\* the providers that find_provider can return, those whose url_regex
\* compiles.
InitThreads ==
  /\ config = <<ProvA, ProvDup, ProvBad>>
  /\ EmptyCaches
  /\ ret = NoCall
  /\ NoFinalize

NextThreads ==
  \/ \E t \in Threads, i \in DOMAIN config, url \in {Path_a, Path_b} :
       CallCheckUrlMethod(t, i, url, <<"G", "E", "T">>)
  \/ \E t \in Threads, i \in {j \in DOMAIN config : RegexCompiles(config[j].url_regex)},
        data \in {ParseJson(Body1).val, JString(<<"{", "}">>)} :
       CallGetAttributes(t, config[i], data)

SpecThreads == InitThreads /\ [][NextThreads]_vars

(***************************************************************************)
(* Verification: the calls of a client                                     *)
(***************************************************************************)
InitVerify ==
  /\ config = <<>>
  /\ EmptyCaches
  /\ ret = NoCall
  /\ NoFinalize

CallVerifySignature(signature, public_key, message) ==
  \E r \in {verify_signature(signature, public_key, message)} :
    /\ ret' = [op |-> "verify_signature", signature |-> signature,
               public_key |-> public_key, message |-> message,
               st |-> r.st, val |-> r.val, msg |-> r.msg]
    /\ UNCHANGED <<config, cacheVars, finalizeVars>>

CallVerifyAttestationSignature(message, signature, public_key, hash_appdata) ==
  \E r \in {verify_attestation_signature(message, signature, public_key, hash_appdata)} :
    /\ ret' = [op |-> "verify_attestation_signature", signature |-> signature,
               public_key |-> public_key, message |-> message, hash_appdata |-> hash_appdata,
               st |-> r.st, val |-> r.val, msg |-> r.msg]
    /\ UNCHANGED <<config, cacheVars, finalizeVars>>

CallVerifyAttestationDocument(document, nonce, pcr, timestamp) ==
  \E r \in {verify_attestation_document(document, nonce, pcr, timestamp)} :
    /\ ret' = [op |-> "verify_attestation_document", document |-> document,
               nonce |-> nonce, pcr |-> pcr, timestamp |-> timestamp,
               st |-> r.st, val |-> r.val, msg |-> r.msg]
    /\ UNCHANGED <<config, cacheVars, finalizeVars>>

NextVerify ==
  \/ \E signature \in SignatureInputs, public_key \in PublicKeyInputs,
        message \in MessageInputs :
       CallVerifySignature(signature, public_key, message)
  \/ \E signature \in SignatureInputs, public_key \in PublicKeyInputs,
        message \in MessageInputs, hash_appdata \in BOOLEAN :
       CallVerifyAttestationSignature(message, signature, public_key, hash_appdata)
  \/ \E document \in DocumentInputs, nonce \in NonceInputs, pcr \in PcrInputs,
        timestamp \in TimestampInputs :
       CallVerifyAttestationDocument(document, nonce, pcr, timestamp)

SpecVerify == InitVerify /\ [][NextVerify]_vars

(***************************************************************************)
(* The evaluation of expressions                                           *)
(***************************************************************************)
InitEval ==
  /\ config = <<>>
  /\ EmptyCaches
  /\ ret = NoCall
  /\ NoFinalize

CallEvaluateFieldExpression(expr, data) ==
  \E r \in {evaluate_field_expression(expr, data)} :
    /\ ret' = [op |-> "evaluate_field_expression", expr |-> expr, data |-> data,
               st |-> r.st, val |-> r.val, msg |-> r.msg, arg |-> r.arg]
    /\ UNCHANGED <<config, cacheVars, finalizeVars>>

CallParseLiteralValue(value_str) ==
  \E r \in {parse_literal_value(value_str)} :
    /\ ret' = [op |-> "parse_literal_value", value_str |-> value_str,
               st |-> r.st, val |-> r.val, msg |-> r.msg, arg |-> r.arg]
    /\ UNCHANGED <<config, cacheVars, finalizeVars>>

CallSplitAttributeFields(content) ==
  /\ ret' = [op |-> "split_attribute_fields", content |-> content,
             fields |-> split_attribute_fields(content)]
  /\ UNCHANGED <<config, cacheVars, finalizeVars>>

NextEval ==
  \/ \E expr \in EvalExpressions, data \in EvalData : CallEvaluateFieldExpression(expr, data)
  \/ \E value_str \in LiteralTokens : CallParseLiteralValue(value_str)
  \/ \E content \in SplitContents : CallSplitAttributeFields(content)

SpecEval == InitEval /\ [][NextEval]_vars

(***************************************************************************)
(* Verifier<Notarize>::finalize, one call on one thread                    *)
(***************************************************************************)
\* The signing key of the notary.
SignerKey == "notary"

Init ==
  /\ config \in Configs
  /\ EmptyCaches
  /\ ret = NoCall
  /\ pc = "start"
  /\ request_data \in Requests
  /\ response_data \in Responses
  /\ frame = NoFrame
  /\ signed_session = NoSession
  /\ io = <<>>
  /\ result = NoResult

\* A panic unwinds through finalize.
Unwind(msg) ==
  /\ pc' = "unwound"
  /\ result' = [st |-> "panic", error |-> msg, session |-> NoSession]

Return(st, error, session) ==
  /\ pc' = "returned"
  /\ result' = [st |-> st, error |-> error, session |-> session]

\* A size that takes a response whose head is not complete to be all head.
resp_size_consumed(resp_bytes, response) ==
  IF response.st = "complete" THEN response.size ELSE Len(resp_bytes)

\* let resp_size = match response.parse(resp_bytes).unwrap(): the length of
\* the head for Status::Complete(size), 0 for Status::Partial.
resp_size(resp_bytes, response) ==
  IF response.st = "complete" THEN response.size ELSE 0

\* From the start to log_event(..).await, or, for a request without a path,
\* to io.send(..).await.
Begin(t) ==
  /\ pc = "start"
  /\ \E request \in {RequestParse(request_data)},
        response \in {ResponseParse(response_data)} :
       \E size \in {resp_size(as_bytes(response_data), response)},
          found \in {find_provider(config, COMPILED_REGEX_CACHE[t],
                                   request.path.v, request.method.v)} :
         \E locals \in {[thread |-> t,
                         req_bytes |-> as_bytes(request_data),
                         resp_bytes |-> as_bytes(response_data),
                         path |-> request.path, method |-> request.method,
                         body |-> from_utf8_lossy(Drop(as_bytes(response_data), size)),
                         attributes |-> <<>>, attestations |-> <<>>,
                         mux_fut |-> "running", mux_closed |-> FALSE]} :
           IF request.st = "err" \/ response.st = "err"
             THEN /\ Unwind("called Result::unwrap() on an Err value")
                  /\ UNCHANGED <<COMPILED_REGEX_CACHE, frame, signed_session>>
           ELSE IF ~request.path.some
             THEN /\ pc' = "send"
                  /\ frame' = locals
                  /\ signed_session' =
                       MakeSignedSession(SignerKey, locals.req_bytes, locals.resp_bytes, <<>>)
                  /\ UNCHANGED <<COMPILED_REGEX_CACHE, result>>
           ELSE /\ COMPILED_REGEX_CACHE' = [COMPILED_REGEX_CACHE EXCEPT ![t] = found.cache]
                /\ frame' = locals
                /\ UNCHANGED signed_session
                /\ CASE found.st = "panic" -> Unwind("Failed to check url method")
                     [] found.st = "none" -> Unwind("provider not found")
                     [] found.st = "some" -> pc' = "log_event" /\ UNCHANGED result
  /\ UNCHANGED <<config, COMPILED_ATTRIBUTES_CACHE, COMPILED_PREPROCESS_CACHE,
                 first_attributes, ret,
                 request_data, response_data, io>>

\* From the completion of log_event to io.send(..).await: the provider's
\* attributes are signed and the SignedSession is built, unless process fails.
ProcessAndSign ==
  /\ pc = "log_event"
  /\ \E o \in process(config, COMPILED_REGEX_CACHE[frame.thread],
                      COMPILED_ATTRIBUTES_CACHE[frame.thread],
                      frame.path.v, frame.method.v, frame.body) :
       /\ COMPILED_REGEX_CACHE' =
            [COMPILED_REGEX_CACHE EXCEPT ![frame.thread] = o.regex_cache]
       /\ COMPILED_ATTRIBUTES_CACHE' =
            [COMPILED_ATTRIBUTES_CACHE EXCEPT ![frame.thread] = o.attr_cache]
       /\ first_attributes' =
            [first_attributes EXCEPT
               ![frame.thread] =
                  IF o.evaluated /\ config[o.idx].id \notin DOMAIN @
                    THEN (config[o.idx].id :> config[o.idx]) @@ @
                    ELSE @]
       /\ CASE o.st = "panic" ->
                 /\ Unwind("attribute evaluation panicked")
                 /\ UNCHANGED <<frame, signed_session>>
            [] o.st = "err" ->
                 /\ Return("err", "ProviderError", NoSession)
                 /\ UNCHANGED <<frame, signed_session>>
            [] o.st = "ok" ->
                 \E attestations \in {SignAttributes(SignerKey, o.list, <<>>)} :
                   /\ pc' = "send"
                   /\ frame' = [frame EXCEPT !.attributes = o.list,
                                             !.attestations = attestations]
                   /\ signed_session' =
                        MakeSignedSession(SignerKey, frame.req_bytes, frame.resp_bytes,
                                          attestations)
                   /\ UNCHANGED result
  /\ UNCHANGED <<config, COMPILED_PREPROCESS_CACHE, ret, request_data, response_data, io>>

\* A finalize that returns after io.send(..) without a look at the muxer
\* future.
SendCompletesNoWait(mux_complete) ==
  /\ pc = "send"
  /\ io' = Append(io, signed_session)
  /\ request_data' = zeroize(request_data)
  /\ response_data' = zeroize(response_data)
  /\ frame' = [frame EXCEPT !.mux_fut = IF mux_complete THEN "complete" ELSE "running"]
  /\ Return("ok", "", signed_session)
  /\ UNCHANGED <<config, cacheVars, ret, signed_session>>

\* io.send(..) succeeds, polled together with the muxer future, which has
\* completed by then or is still running: the buffers are zeroized; finalize
\* returns at once when mux_fut.is_complete(), and closes the muxer and
\* awaits the future otherwise.
SendCompletes(mux_complete) ==
  /\ pc = "send"
  /\ io' = Append(io, signed_session)
  /\ request_data' = zeroize(request_data)
  /\ response_data' = zeroize(response_data)
  /\ IF mux_complete
       THEN /\ frame' = [frame EXCEPT !.mux_fut = "complete"]
            /\ Return("ok", "", signed_session)
       ELSE /\ frame' = [frame EXCEPT !.mux_closed = TRUE]
            /\ pc' = "close"
            /\ UNCHANGED result
  /\ UNCHANGED <<config, cacheVars, ret, signed_session>>

\* io.send(..) or the muxer polled with it fails: the error is returned by "?".
SendFails ==
  /\ pc = "send"
  /\ Return("err", "ConnectionError", NoSession)
  /\ UNCHANGED <<config, cacheVars, ret, request_data, response_data, frame,
                 signed_session, io>>

\* mux_fut.await after mux_ctrl.mux().close()
MuxCompletes ==
  /\ pc = "close"
  /\ frame' = [frame EXCEPT !.mux_fut = "complete"]
  /\ Return("ok", "", signed_session)
  /\ UNCHANGED <<config, cacheVars, ret, request_data, response_data,
                 signed_session, io>>

\* mux_fut.await completes with an error, which "?" returns.
MuxFails ==
  /\ pc = "close"
  /\ frame' = [frame EXCEPT !.mux_fut = "failed"]
  /\ Return("err", "MuxerError", NoSession)
  /\ UNCHANGED <<config, cacheVars, ret, request_data, response_data,
                 signed_session, io>>

Next ==
  \/ Begin(1)
  \/ ProcessAndSign
  \/ \E mux_complete \in BOOLEAN : SendCompletes(mux_complete)
  \/ SendFails
  \/ MuxCompletes
  \/ MuxFails

Spec == Init /\ [][Next]_vars

(***************************************************************************)
(* Properties of finalize                                                  *)
(***************************************************************************)
\* finalize ended on a failure of the provider for a request whose path was
\* parsed: no provider matched, or process returned an error.
ProviderFailed ==
  /\ frame.path.some
  /\ \/ result.st = "panic" /\ result.error = "provider not found"
     \/ result.st = "err" /\ result.error = "ProviderError"

\* C1: when no provider matches the request, or preprocessing or attribute
\* evaluation fails, finalize still signs the transcript and sends a
\* SignedSession before it ends.
C1_ProviderFailureStillSends == ProviderFailed => Len(io) = 1

Zeroed(buf) == \A i \in 1..Len(buf) : buf[i] = NUL

\* C2: whenever finalize has returned to its caller, with Ok or with an error,
\* the request buffer and the response buffer hold only zero bytes.
C2_BuffersZeroedOnReturn ==
  pc = "returned" => Zeroed(request_data) /\ Zeroed(response_data)

\* C3: every SignedSession that finalize sends carries the hex of the digest
\* of the request bytes followed by the response bytes, the signer's signature
\* over that digest, and the hex of the same bytes.
C3_SessionCoversTranscript ==
  [][\A i \in (Len(io) + 1)..Len(io') :
       LET data == as_bytes(request_data) \o as_bytes(response_data)
       IN  /\ io'[i].application_signed_data = hex_encode(Sha256(data))
           /\ io'[i].signature = Sign(SignerKey, Sha256(data))
           /\ io'[i].application_data = hex_encode(data)]_vars

\* A session was sent for a request and a response that differ.
C3_Sent == Len(io) = 1 /\ frame.req_bytes # frame.resp_bytes

\* C4: in every SignedSession sent, the keys of the attestation map are the
\* claims that process returned for the session, and each key maps to the
\* signer's signature over the bytes of that key.
C4_AttestationsSignClaims ==
  \A i \in 1..Len(io) :
    /\ DOMAIN io[i].attestations = {frame.attributes[k] : k \in 1..Len(frame.attributes)}
    /\ \A claim \in DOMAIN io[i].attestations :
         io[i].attestations[claim] = Sign(SignerKey, as_bytes(claim))

\* A session with several claims was sent.
C4_SentWithClaims == Len(io) = 1 /\ Cardinality(DOMAIN io[1].attestations) > 1

\* finalize has parsed the request and the response without a parse error
\* and holds its locals.
Parsing == frame.thread # 0

\* C15: when the request has been parsed only partially, finalize fails
\* fatally: it looks up no provider, signs nothing and sends nothing.
C15_PartialRequestIsFatal ==
  (Parsing /\ RequestParse(from_utf8_lossy(frame.req_bytes)).st = "partial") =>
    /\ pc = "unwound"
    /\ result.st = "panic"
    /\ COMPILED_REGEX_CACHE[frame.thread] = <<>>
    /\ signed_session = NoSession
    /\ io = <<>>

\* C16: a response whose head has been parsed only partially is tolerated:
\* finalize goes on with zero bytes as the head and the whole response
\* buffer as the body; for a response whose head is complete the body is the
\* bytes after the length of the head.
C16_PartialResponseIsBody ==
  Parsing =>
    /\ ResponseParse(from_utf8_lossy(frame.resp_bytes)).st \in {"partial", "complete"}
    /\ ResponseParse(from_utf8_lossy(frame.resp_bytes)).st = "partial" => as_bytes(frame.body) = frame.resp_bytes
    /\ ResponseParse(from_utf8_lossy(frame.resp_bytes)).st = "complete" =>
         /\ ResponseParse(from_utf8_lossy(frame.resp_bytes)).size \in 1..Len(frame.resp_bytes)
         /\ as_bytes(frame.body) = SubSeq(frame.resp_bytes,
                                ResponseParse(from_utf8_lossy(frame.resp_bytes)).size + 1,
                                          Len(frame.resp_bytes))
    /\ (pc = "unwound" /\ ResponseParse(from_utf8_lossy(frame.resp_bytes)).st = "partial") =>
         result.error \in {"provider not found", "Failed to check url method"}

\* finalize has taken a response with a partial head up to the processing of
\* the provider, the whole buffer being the body.
C16_PartialProcessed ==
  /\ Parsing
  /\ ResponseParse(from_utf8_lossy(frame.resp_bytes)).st = "partial"
  /\ as_bytes(frame.body) = frame.resp_bytes
  /\ frame.body # <<>>
  /\ frame.path.some
  /\ pc \in {"send", "returned"}
  /\ result.st # "panic"

\* C28: once the SignedSession is sent, finalize returns only when the
\* muxer future has completed: at once when it had completed by the time of
\* the send, and otherwise after it has closed the muxer and the future has
\* completed.  It returns Ok only when the future has completed without
\* error, and while it waits for the future it has closed the muxer and has
\* returned nothing.
C28_ReturnsAfterMuxCompletes ==
  /\ pc = "close" =>
       /\ io = <<signed_session>>
       /\ frame.mux_closed
       /\ frame.mux_fut = "running"
       /\ result = NoResult
  /\ (pc = "returned" /\ io # <<>>) =>
       /\ frame.mux_fut \in {"complete", "failed"}
       /\ result.st = "ok" <=> frame.mux_fut = "complete"
  /\ result.st = "ok" =>
       /\ pc = "returned"
       /\ io = <<signed_session>>
       /\ frame.mux_fut = "complete"

\* finalize has returned Ok after it closed a muxer that was still running.
C28_ClosedThenReturned ==
  /\ pc = "returned"
  /\ result.st = "ok"
  /\ io # <<>>
  /\ frame.mux_closed
  /\ frame.mux_fut = "complete"

(***************************************************************************)
(* Properties of provider matching                                         *)
(***************************************************************************)
\* The positions of the providers whose own url_regex matches url and whose
\* method is method.
Qualifying(providers, url, method) ==
  {i \in DOMAIN providers :
     /\ RegexCompiles(providers[i].url_regex)
     /\ RegexIsMatch(providers[i].url_regex, url)
     /\ providers[i].method = method}

NotCompiling(providers) ==
  {i \in DOMAIN providers : ~RegexCompiles(providers[i].url_regex)}

Lowest(S) == CHOOSE i \in S : \A j \in S : i <= j

DistinctIds(providers) ==
  \A i, j \in DOMAIN providers : i # j => providers[i].id # providers[j].id

C6_OwnRules ==
  ret.op = "get_attributes" => ret.rules = NonEmptyRules(ret.provider.attributes)

\* C6 amended: get_attributes evaluates exactly the non-empty rule strings of
\* the first provider with the same id that was given to get_attributes on
\* the thread, which is the provider itself when no provider of that id came
\* before it.
C6_RulesOfFirstWithId ==
  ret.op = "get_attributes" =>
    /\ ret.provider.id \in DOMAIN first_attributes[ret.thread]
    /\ ret.rules = NonEmptyRules(first_attributes[ret.thread][ret.provider.id].attributes)

\* A provider was evaluated after another provider of its id.
C6_SecondWithId ==
  /\ ret.op = "get_attributes"
  /\ ret.st = "ok"
  /\ first_attributes[ret.thread][ret.provider.id] # ret.provider

\* The claims of the fields of one rule, from left to right.
FieldClaims(fields, data) ==
  [i \in 1..Len(fields) |->
     Render(parse_field_mapping(fields[i]).key,
            evaluate_field_expression(parse_field_mapping(fields[i]).expr, data).val)]

\* The claims of the rules in order, each rule's fields from left to right.
RECURSIVE OrderedClaims(_, _)
OrderedClaims(rules, data) ==
  IF rules = <<>> THEN <<>>
  ELSE FieldClaims(split_attribute_fields(StripBraces(Head(rules))), data)
         \o OrderedClaims(Tail(rules), data)

\* C7: get_attributes returns the claims in rule order and, within a rule, in
\* the order of the fields in the rule string, one claim per field.
C7_RuleThenFieldOrder ==
  (ret.op = "get_attributes" /\ ret.st = "ok") =>
    ret.list = OrderedClaims(ret.rules, ret.data)

\* C8: without a preprocess script, or with an empty one, preprocess_response
\* returns no error: the value of a body that is JSON, and the JSON string
\* "{}" for any other body.
C8_NoScriptNeverFails ==
  (/\ ret.op = "preprocess_response"
   /\ (~ret.provider.preprocess.some \/ ret.provider.preprocess.script = "")) =>
    /\ ret.st = "ok"
    /\ ret.val = IF ParseJson(ret.response).ok
                   THEN ParseJson(ret.response).val
                   ELSE JString(<<"{", "}">>)

\* A body that is no JSON was preprocessed by a provider whose script is empty.
C8_DefaultReturned ==
  /\ ret.op = "preprocess_response"
  /\ ret.provider.preprocess.some
  /\ ret.provider.preprocess.script = ""
  /\ ~ParseJson(ret.response).ok
  /\ ret.st = "ok"

\* C11: when the script throws an exception, preprocess_response returns an
\* error of the preprocess error kind that carries the message of the
\* exception, and no JSON value.
C11_ScriptExceptionIsError ==
  (ret.op = "preprocess_response" /\ ret.provider.preprocess.script = "throw") =>
    /\ ret.st = "err"
    /\ ret.kind \in {"PreprocessError", "ProcessError"}
    /\ ret.detail = "Invalid account"
    /\ ret.val = JNull

\* A provider whose script throws has preprocessed a body that is JSON.
C11_ThrowReturned ==
  /\ ret.op = "preprocess_response"
  /\ ret.provider.preprocess.script = "throw"
  /\ ParseJson(ret.response).ok
  /\ ret.st = "err"

\* C12: every call of preprocess_response with a script runs the script in a
\* context created during that call: a script that counts its runs in a
\* global of its context returns 1 at every call, whatever calls came before
\* it, and no context is taken from or stored into COMPILED_PREPROCESS_CACHE,
\* which stays empty on every thread.
C12_FreshContextPerCall ==
  /\ \A t \in Threads : COMPILED_PREPROCESS_CACHE[t] = <<>>
  /\ (ret.op = "preprocess_response" /\ ret.provider.preprocess.script = "count") =>
       /\ ret.st = "ok"
       /\ ret.val = JNumber(NumInt(1))

\* The counting script has run in two calls in a row for one provider.
C12_CountedAgain ==
  /\ ret.op = "preprocess_response"
  /\ ret.provider.preprocess.script = "count"
  /\ ret.again
  /\ ret.st = "ok"

\* The closure of a call of preprocess_response panics: the interpreter
\* faults, or the x.com extraction slices a body whose last "}" stands before
\* its first "{".
Faults(p, response) ==
  /\ p.preprocess.some
  /\ p.preprocess.script # ""
  /\ PreprocessClosure(p, response, ContextDefault).st = "panic"

Retry(p) == EvalScript(p.preprocess.script, escape_js_string(<<"{", "}">>), ContextDefault)

\* C14: when the run of the script faults, preprocess_response retries
\* exactly once in a new context with an empty object as input: it returns
\* the value of the retry when the retry succeeds, and an error only when
\* the retry fails too.
C14_FaultIsRetriedOnce ==
  (ret.op = "preprocess_response" /\ Faults(ret.provider, ret.response)) =>
    IF Retry(ret.provider).st = "value"
      THEN ret.st = "ok" /\ ret.val = Retry(ret.provider).val
      ELSE ret.st = "err"

\* The text that a call of preprocess_response with a script escapes and
\* puts between the quotes of process('..'): the response, and for the host
\* x.com the part of it from the first "{" to the last "}".
Interpolated(p, response) ==
  IF p.host = "x.com" THEN extract_json_from_response(response).text ELSE response

\* The characters that escape_js_string escapes.
Escaped == {"\\", "'", "\n", "\r", "\t"}

\* The backslashes that stand in src right before position i.
RECURSIVE BackslashesBefore(_, _)
BackslashesBefore(src, i) ==
  IF i > 1 /\ src[i - 1] = "\\" THEN 1 + BackslashesBefore(src, i - 1) ELSE 0

\* C26: in every call of preprocess_response that runs a script, the text
\* put between the quotes of the literal holds no newline, carriage return
\* or tab, every single quote in it follows an odd number of backslashes and
\* no run of backslashes in it is of odd length unless it is followed by one
\* of ' n r t, so the literal ends at the closing quote of the template only;
\* the string the literal denotes is the text that was escaped; and a script
\* that parses its input returns the value of that text.
C26_ResponseLiteralIsEscaped ==
  (/\ ret.op = "preprocess_response"
   /\ ret.provider.preprocess.some
   /\ ret.provider.preprocess.script # ""
   /\ ~(ret.provider.host = "x.com" /\ extract_json_from_response(ret.response).panic)) =>
    LET text == Interpolated(ret.provider, ret.response)
        src == escape_js_string(text)
    IN  /\ \A i \in 1..Len(src) :
             /\ src[i] \notin {"\n", "\r", "\t"}
             /\ src[i] = "'" => BackslashesBefore(src, i) % 2 = 1
             /\ (src[i] # "\\" /\ BackslashesBefore(src, i) % 2 = 1) =>
                  src[i] \in {"'", "n", "r", "t"}
        /\ BackslashesBefore(src, Len(src) + 1) % 2 = 0
        /\ Len(src) = Len(text) + Cardinality({i \in 1..Len(text) : text[i] \in Escaped})
        /\ JsLiteral(src, <<>>) = [ok |-> TRUE, str |-> text]
        /\ ret.provider.preprocess.script = "parse" =>
             IF ParseJson(text).ok
               THEN ret.st = "ok" /\ ret.val = JsRoundTrip(ParseJson(text).val)
               ELSE ret.st = "err" /\ ret.detail = "SyntaxError"

\* A response with a quote, a backslash, a tab, a carriage return and a
\* newline has gone through a script that parses it, and the value holds the
\* quote and the backslash.
C26_AllFiveEscaped ==
  /\ ret.op = "preprocess_response"
  /\ ret.provider.preprocess.script = "parse"
  /\ ret.provider.host # "x.com"
  /\ Escaped \subseteq {ret.response[i] : i \in 1..Len(ret.response)}
  /\ ret.st = "ok"
  /\ ret.val = JObject((<<"x">> :> JString(<<"'", "\\">>)))

\* Cache cache of thread t keeps every entry it has.
Kept(cache, t) ==
  \A id \in DOMAIN cache[t] : id \in DOMAIN cache'[t] /\ cache'[t][id] = cache[t][id]

\* The step is a call of op on thread t for a provider whose id has no entry
\* in cache.
FirstUse(op, cache, t) ==
  /\ ret'.op = op
  /\ ret'.thread = t
  /\ (IF op = "check_url_method" THEN config[ret'.idx] ELSE ret'.provider).id \notin DOMAIN cache[t]

\* What a step does to the caches of thread t.  An entry is never removed
\* or replaced.  The regex cache changes only in a call of check_url_method
\* on t for a provider whose id has no entry and whose url_regex compiles,
\* and it gains that regex under that id.  The attributes cache changes only
\* in a call of get_attributes on t for a provider whose id has no entry, and
\* it gains the provider's non-empty rules under that id; only_ok tells
\* whether that call must have returned Ok.  The outcome of a call on t is
\* decided by the entries of t and the provider, whatever the other threads
\* hold.
ThreadStep(t, only_ok) ==
  /\ Kept(COMPILED_REGEX_CACHE, t)
  /\ Kept(COMPILED_ATTRIBUTES_CACHE, t)
  /\ COMPILED_REGEX_CACHE'[t] # COMPILED_REGEX_CACHE[t] =>
       /\ FirstUse("check_url_method", COMPILED_REGEX_CACHE, t)
       /\ ret'.st = "ok"
       /\ COMPILED_REGEX_CACHE'[t] =
            (config[ret'.idx].id :> config[ret'.idx].url_regex) @@ COMPILED_REGEX_CACHE[t]
  /\ COMPILED_ATTRIBUTES_CACHE'[t] # COMPILED_ATTRIBUTES_CACHE[t] =>
       /\ FirstUse("get_attributes", COMPILED_ATTRIBUTES_CACHE, t)
       /\ only_ok => ret'.st = "ok"
       /\ COMPILED_ATTRIBUTES_CACHE'[t] =
            (ret'.provider.id :> SelectSeq(ret'.provider.attributes, LAMBDA rule : rule # <<>>))
              @@ COMPILED_ATTRIBUTES_CACHE[t]
  /\ (ret'.op = "check_url_method" /\ ret'.thread = t) =>
       LET p == config[ret'.idx]
       IN  IF p.id \in DOMAIN COMPILED_REGEX_CACHE[t]
             THEN /\ ret'.st = "ok"
                  /\ ret'.val = (RegexIsMatch(COMPILED_REGEX_CACHE[t][p.id], ret'.url)
                                   /\ p.method = ret'.method)
             ELSE /\ ret'.st = "ok" <=> RegexCompiles(p.url_regex)
                  /\ ret'.st = "ok" <=> p.id \in DOMAIN COMPILED_REGEX_CACHE'[t]
  /\ (ret'.op = "get_attributes" /\ ret'.thread = t) =>
       /\ ret'.provider.id \in DOMAIN COMPILED_ATTRIBUTES_CACHE'[t]
       /\ ret'.rules = COMPILED_ATTRIBUTES_CACHE'[t][ret'.provider.id]

\* C27, as stated: the caches of a thread gain an entry only in a call of
\* that thread, at the first successful use of a provider id; an entry is
\* never removed or replaced; no call of a thread reads or changes an entry
\* of another thread.
C27_FilledOnFirstSuccessfulUse == [][\A t \in Threads : ThreadStep(t, TRUE)]_vars

\* C27, amended: as stated, but the attributes cache gains its entry at the
\* first call of get_attributes for the id on the thread, whether or not the
\* evaluation of the rules then succeeds.
C27_FilledOnFirstUse == [][\A t \in Threads : ThreadStep(t, FALSE)]_vars

\* Two threads hold different rules under one provider id, and the last
\* call, a call of get_attributes for that id, has failed on its thread.
C27_EachThreadItsOwnEntry ==
  /\ ret.op = "get_attributes"
  /\ ret.st # "ok"
  /\ \E t \in Threads \ {ret.thread} :
       /\ ret.provider.id \in DOMAIN COMPILED_ATTRIBUTES_CACHE[t]
       /\ ret.provider.id \in DOMAIN COMPILED_ATTRIBUTES_CACHE[ret.thread]
       /\ COMPILED_ATTRIBUTES_CACHE[t][ret.provider.id]
            # COMPILED_ATTRIBUTES_CACHE[ret.thread][ret.provider.id]
       /\ COMPILED_ATTRIBUTES_CACHE[ret.thread][ret.provider.id]
            = SelectSeq(ret.provider.attributes, LAMBDA rule : rule # <<>>)

\* C29: every call of get_attributes returns: its outcome is a list of
\* claims or an error value, never a panic that unwinds out of the call,
\* whatever the rules of the provider and the data are.
C29_GetAttributesReturns ==
  ret.op = "get_attributes" => ret.st \in {"ok", "err"}

(***************************************************************************)
(* Properties of expression evaluation                                     *)
(***************************************************************************)
\* The outcome of the last call of evaluate_field_expression.
Outcome == [st |-> ret.st, val |-> ret.val, msg |-> ret.msg, arg |-> ret.arg]

Evaluating == ret.op = "evaluate_field_expression"

\* Position i of expr stands between backticks.
Quoted(expr, i) == Cardinality({j \in 1..(i - 1) : expr[j] = Backtick}) % 2 = 1

\* The parenthesis depth at position i of expr.
Depth(expr, i) ==
  Cardinality({j \in 1..(i - 1) : expr[j] = "(" /\ ~Quoted(expr, j)})
    - Cardinality({j \in 1..(i - 1) : expr[j] = ")" /\ ~Quoted(expr, j)})

\* The top-level occurrences of op in expr.
TopLevel(expr, op) ==
  {i \in 1..(Len(expr) - Len(op) + 1) :
     /\ SubSeq(expr, i, i + Len(op) - 1) = op
     /\ ~Quoted(expr, i)
     /\ Depth(expr, i) = 0}

First(S) == CHOOSE i \in S : \A j \in S : i <= j

NoOperator(expr) ==
  /\ TopLevel(expr, <<"&", "&">>) = {}
  /\ TopLevel(expr, << ">" >>) = {}
  /\ TopLevel(expr, <<"=", "=">>) = {}

\* expr is f(inner) for the function name f.
IsCall(expr, f) ==
  /\ NoOperator(expr)
  /\ Len(expr) > Len(f) + 1
  /\ SubSeq(expr, 1, Len(f) + 1) = f \o <<"(">>
  /\ expr[Len(expr)] = ")"

Inner(expr, f) == SubSeq(expr, Len(f) + 2, Len(expr) - 1)

NameToNumber == <<"t", "o", "_", "n", "u", "m", "b", "e", "r">>

NameLength == <<"l", "e", "n", "g", "t", "h">>

\* C17: to_number(inner) returns the number unchanged when inner evaluates to
\* a number, so that to_number of a to_number equals the inner to_number;
\* it returns the float a string parses to when that float is finite; and it
\* returns an error, never a number, when the string does not parse, parses
\* to NaN or an infinity, or the value is of any other type.
C17_ToNumber ==
  (Evaluating /\ IsCall(Trim(ret.expr), NameToNumber)) =>
    LET inner == Inner(Trim(ret.expr), NameToNumber)
        inner_val == evaluate_field_expression(inner, ret.data)
        f == ParseF64(inner_val.val.s)
    IN  /\ inner_val.st # "ok" => Outcome = inner_val
        /\ (inner_val.st = "ok" /\ inner_val.val.t = "number") => Outcome = inner_val
        /\ (inner_val.st = "ok" /\ inner_val.val.t = "string") =>
             IF f.ok /\ f.cls = "finite"
               THEN ret.st = "ok" /\ ret.val = JNumber(NumFloat(f.v))
               ELSE ret.st = "err"
        /\ (inner_val.st = "ok" /\ inner_val.val.t \notin {"number", "string"}) =>
             ret.st = "err"
        /\ ret.st = "ok" => ret.val.t = "number"
        /\ IsCall(inner, NameToNumber) => Outcome = inner_val

\* to_number has been given a string that parses to NaN or an infinity.
C17_NotFiniteRefused ==
  /\ Evaluating
  /\ IsCall(Trim(ret.expr), NameToNumber)
  /\ \E inner_val \in {evaluate_field_expression(Inner(Trim(ret.expr), NameToNumber), ret.data)} :
       /\ inner_val.st = "ok"
       /\ inner_val.val.t = "string"
       /\ ParseF64(inner_val.val.s).ok
       /\ ParseF64(inner_val.val.s).cls # "finite"
  /\ ret.st = "err"

\* The index of the first part of the path that data does not hold, 0 when
\* it holds them all.
RECURSIVE FirstMissing(_, _, _)
FirstMissing(data, parts, k) ==
  IF k > Len(parts) THEN 0
  ELSE IF data.t = "object" /\ parts[k] \in DOMAIN data.o
    THEN FirstMissing(data.o[parts[k]], parts, k + 1)
  ELSE k

\* The value at the end of a path that data holds.
RECURSIVE At(_, _)
At(data, parts) == IF parts = <<>> THEN data ELSE At(data.o[Head(parts)], Tail(parts))

\* C18: an expression without operator and function evaluates to the JSON
\* value of the field it names, unchanged: a bare identifier is looked up in
\* data, a dotted path descends through the nested objects from left to
\* right, and the first segment that is missing makes the evaluation fail
\* with the error "Field '<segment>' not found" for that segment.
C18_FieldAccess ==
  (/\ Evaluating
   /\ NoOperator(Trim(ret.expr))
   /\ ~IsCall(Trim(ret.expr), NameToNumber)
   /\ ~IsCall(Trim(ret.expr), NameLength)) =>
    LET parts == SplitChar(Trim(ret.expr), ".")
        missing == FirstMissing(ret.data, parts, 1)
    IN  IF missing = 0
          THEN Outcome = ROk(At(ret.data, parts))
          ELSE Outcome = RErr("Field not found", parts[missing])

\* A path of three segments has failed at its second segment.
C18_MiddleSegmentMissing ==
  /\ Evaluating
  /\ Trim(ret.expr) = <<"a", ".", "b", ".", "c">>
  /\ FirstMissing(ret.data, SplitChar(Trim(ret.expr), "."), 1) = 2
  /\ ret.st = "err"
  /\ ret.arg = <<"b">>

\* The comparison l > r of the code, for the outcomes of its two sides.
Greater(l, r) ==
  IF l.st # "ok" THEN l
  ELSE IF r.st # "ok" THEN r
  ELSE IF l.val.t = "number" /\ r.val.t = "number" THEN ROk(JBool(l.val.n.v > r.val.n.v))
  ELSE RErr("Cannot compare", <<>>)

\* The comparison l == r of the code, for the outcomes of its two sides.
Equal(l, r) ==
  IF l.st # "ok" THEN l
  ELSE IF r.st # "ok" THEN r
  ELSE ROk(JBool(l.val = r.val))

\* The conjunction l && r: both sides evaluated, both booleans.
Both(l, r) ==
  IF l.st # "ok" THEN l
  ELSE IF r.st # "ok" THEN r
  ELSE IF l.val.t # "bool" THEN RErr("Left side of && is not boolean", <<>>)
  ELSE IF r.val.t # "bool" THEN RErr("Right side of && is not boolean", <<>>)
  ELSE ROk(JBool(l.val.b /\ r.val.b))

\* The rule of the example: to_number(a.amount) >`10000` && a.code == 'USD'
ExampleRule ==
    <<"t", "o", "_", "n", "u", "m", "b", "e", "r", "(", "a", ".", "a", "m", "o", "u", "n", "t",
      ")", " ", ">", Backtick, "1", "0", "0", "0", "0", Backtick, " ", "&", "&", " ", "a", ".",
      "c", "o", "d", "e", " ", "=", "=", " ", "'", "U", "S", "D", "'">>

\* C19: evaluate_field_expression picks the operator in a fixed order: it
\* splits at the first top-level "&&" when there is one, otherwise at the
\* first top-level ">", otherwise at the first top-level "==", top-level
\* meaning at parenthesis depth 0 and outside backticks; the rule of the
\* example is the conjunction of its two comparisons.
C19_OperatorByScanOrder ==
  Evaluating =>
    LET expr == Trim(ret.expr)
        ands == TopLevel(expr, <<"&", "&">>)
        gts == TopLevel(expr, << ">" >>)
        eqs == TopLevel(expr, <<"=", "=">>)
    IN  /\ ands # {} =>
             Outcome = Both(evaluate_field_expression(Take(expr, First(ands) - 1), ret.data),
                            evaluate_field_expression(Drop(expr, First(ands) + 1), ret.data))
        /\ (ands = {} /\ gts # {}) =>
             Outcome = Greater(evaluate_field_expression(Take(expr, First(gts) - 1), ret.data),
                               parse_literal_value(Drop(expr, First(gts))))
        /\ (ands = {} /\ gts = {} /\ eqs # {}) =>
             Outcome = Equal(evaluate_field_expression(Take(expr, First(eqs) - 1), ret.data),
                             parse_literal_value(Drop(expr, First(eqs) + 1)))
        /\ (expr = ExampleRule /\ FirstMissing(ret.data, <<<<"a">>, <<"amount">>>>, 1) = 0
                               /\ FirstMissing(ret.data, <<<<"a">>, <<"code">>>>, 1) = 0) =>
             /\ ret.st = "ok"
             /\ ret.val =
                  JBool(/\ Greater(evaluate_field_expression(
                                     NameToNumber \o <<"(", "a", ".", "a", "m", "o", "u", "n", "t", ")">>,
                                     ret.data),
                                   ROk(JNumber(NumFloat(10000)))) = ROk(JBool(TRUE))
                        /\ At(ret.data, <<<<"a">>, <<"code">>>>) = JString(<<"U", "S", "D">>))

\* The rule of the example has evaluated to true.
C19_ExampleIsTrue ==
  /\ Evaluating
  /\ Trim(ret.expr) = ExampleRule
  /\ ret.st = "ok"
  /\ ret.val = JBool(TRUE)

\* C20: for L && R both sides are evaluated, without short-circuit: an
\* error of a side is the error of the whole, also an error of R after a
\* false L; when both evaluate, a side that is no boolean makes the whole an
\* error that names the side, the left one first; otherwise the result is
\* the boolean AND of the two values.
C20_AndOfBothSides ==
  (Evaluating /\ TopLevel(Trim(ret.expr), <<"&", "&">>) # {}) =>
    LET expr == Trim(ret.expr)
        and_pos == First(TopLevel(expr, <<"&", "&">>))
        l == evaluate_field_expression(Take(expr, and_pos - 1), ret.data)
        r == evaluate_field_expression(Drop(expr, and_pos + 1), ret.data)
    IN  /\ l.st # "ok" => Outcome = l
        /\ (l.st = "ok" /\ r.st # "ok") => Outcome = r
        /\ (l.st = "ok" /\ r.st = "ok") =>
             IF l.val.t # "bool"
               THEN Outcome = RErr("Left side of && is not boolean", <<>>)
             ELSE IF r.val.t # "bool"
               THEN Outcome = RErr("Right side of && is not boolean", <<>>)
             ELSE Outcome = ROk(JBool(l.val.b /\ r.val.b))

\* A false left side has not kept the right side from failing.
C20_RightFailsAfterFalse ==
  /\ Evaluating
  /\ Trim(ret.expr) = <<"f", " ", "&", "&", " ", "q">>
  /\ evaluate_field_expression(<<"f">>, ret.data) = ROk(JBool(FALSE))
  /\ ret.st = "err"
  /\ ret.arg = <<"q">>

\* The right-hand token of a comparison that splits expr at position pos
\* with an operator of n characters.
Token(expr, pos, n) == Trim(Drop(expr, pos + n - 1))

\* A token that is one quote character and nothing else: parse_literal_value
\* does not return for it (C29).
LoneQuote(token) == token \in {<<Backtick>>, <<"'">>, <<"\"">>}

\* The token is wrapped in the character q.
Wrapped(token, q) == Len(token) >= 2 /\ Head(token) = q /\ token[Len(token)] = q

Unwrapped(token) == SubSeq(token, 2, Len(token) - 1)

\* The text of the token that is read as a number: the text between the
\* backticks of a token in backticks, the token itself otherwise.
NumberText(token) == IF Wrapped(token, Backtick) THEN Unwrapped(token) ELSE token

StringText(token) ==
  IF Wrapped(token, Backtick) \/ Wrapped(token, "'") \/ Wrapped(token, "\"")
    THEN Unwrapped(token)
    ELSE token

ParsingLiteral == ret.op = "parse_literal_value"

\* The literal of a token that is more than a lone quote character, with the
\* given outcome for a token that reads as NaN or an infinity outside
\* backticks.
LiteralOf(token, bare_not_finite) ==
  LET inner == ParseF64(Unwrapped(token))
      bare == ParseF64(token)
  IN  IF Wrapped(token, Backtick)
        THEN IF ~inner.ok THEN ret.st = "ok" /\ ret.val = JString(Unwrapped(token))
             ELSE IF inner.cls = "finite"
               THEN ret.st = "ok" /\ ret.val = JNumber(NumFloat(inner.v))
             ELSE ret.st = "err"
      ELSE IF bare.ok
        THEN IF bare.cls = "finite"
               THEN ret.st = "ok" /\ ret.val = JNumber(NumFloat(bare.v))
               ELSE bare_not_finite
      ELSE IF Wrapped(token, "'") \/ Wrapped(token, "\"")
        THEN ret.st = "ok" /\ ret.val = JString(Unwrapped(token))
      ELSE ret.st = "ok" /\ ret.val = JString(token)

Splitting == ret.op = "split_attribute_fields"

\* The commas of content at parenthesis depth 0 and outside backticks.
SplitPoints(content) ==
  {i \in 1..Len(content) : content[i] = "," /\ ~Quoted(content, i) /\ Depth(content, i) = 0}

\* The pieces of content from position from on, cut at the points of cuts,
\* from left to right.
RECURSIVE Pieces(_, _, _)
Pieces(content, from, cuts) ==
  IF cuts = {} THEN <<SubSeq(content, from, Len(content))>>
  ELSE <<SubSeq(content, from, First(cuts) - 1)>>
         \o Pieces(content, First(cuts) + 1, cuts \ {First(cuts)})

\* C24: split_attribute_fields cuts the content at exactly the commas that
\* stand at parenthesis depth 0 and outside backticks; it returns the pieces
\* from left to right, each trimmed, without the pieces that are empty after
\* trimming. A comma within parentheses or backticks is no cut, so every
\* field returned holds as many such commas as lie between its two cuts.
C24_SplitAtTopLevelCommas ==
  Splitting =>
    LET pieces == Pieces(ret.content, 1, SplitPoints(ret.content))
        trimmed == [i \in 1..Len(pieces) |-> Trim(pieces[i])]
    IN  /\ ret.fields = SelectSeq(trimmed, LAMBDA piece : piece # <<>>)
        /\ \A i \in 1..Len(ret.fields) :
             /\ ret.fields[i] # <<>>
             /\ ret.fields[i] = Trim(ret.fields[i])
             /\ SplitPoints(ret.fields[i]) = {}

\* A content with a comma in parentheses and a comma at the top level has
\* been split into two fields, the first of which holds the inner comma.
C24_InnerCommaKept ==
  /\ Splitting
  /\ Len(ret.fields) = 2
  /\ \E i \in 1..Len(ret.fields[1]) : ret.fields[1][i] = "," /\ Depth(ret.fields[1], i) = 1
  /\ Cardinality(SplitPoints(ret.content)) = 1

\* The number of bytes of the UTF-8 encoding of s.
RECURSIVE Utf8Bytes(_)
Utf8Bytes(s) ==
  IF s = <<>> THEN 0 ELSE (IF Head(s) = EAcute THEN 2 ELSE 1) + Utf8Bytes(Tail(s))

\* The outcome of length(inner), with the size of a string in bytes or in
\* characters.
LengthIs(in_bytes) ==
  (Evaluating /\ IsCall(Trim(ret.expr), NameLength)) =>
    LET inner_val == evaluate_field_expression(Inner(Trim(ret.expr), NameLength), ret.data)
        size == IF in_bytes THEN Utf8Bytes(inner_val.val.s) ELSE Len(inner_val.val.s)
    IN  /\ inner_val.st # "ok" => Outcome = inner_val
        /\ (inner_val.st = "ok" /\ inner_val.val.t = "string") =>
             Outcome = ROk(JNumber(NumInt(size)))
        /\ (inner_val.st = "ok" /\ inner_val.val.t = "array") =>
             Outcome = ROk(JNumber(NumInt(Len(inner_val.val.a))))
        /\ (inner_val.st = "ok" /\ inner_val.val.t \notin {"string", "array"}) =>
             ret.st = "err"

\* C25, as stated: length(inner) is the number of characters of the string
\* inner evaluates to, the number of elements of the array it evaluates to,
\* and an error for a value of any other type.
C25_LengthInCharacters == LengthIs(FALSE)

\* C25, amended: length(inner) is the number of bytes of the UTF-8 encoding
\* of the string inner evaluates to, which is its number of characters when
\* all of them are ASCII; the number of elements of the array it evaluates
\* to; and an error for a value of any other type.
C25_LengthInBytes == LengthIs(TRUE)

\* The length of a string of one character of two bytes has been taken, and
\* it is 2.
C25_TwoBytesCounted ==
  /\ Evaluating
  /\ Trim(ret.expr) = <<"l", "e", "n", "g", "t", "h", "(", "f", ")">>
  /\ HasKey(ret.data, <<"f">>)
  /\ ret.data.o[<<"f">>] = JString(<<EAcute>>)
  /\ Outcome = ROk(JNumber(NumInt(2)))

\* C30: equality of numbers is by value: when the left side of == evaluates
\* to a JSON number that is an integer n, as a field that holds n or a
\* length that is n, and the right-hand token reads as a finite number, the
\* result is true exactly when n is the value of the token; so
\* length(s) == U+00602U+0060 is true exactly when the length of s is 2.
C30_NumericEqualityByValue ==
  (/\ Evaluating
   /\ TopLevel(Trim(ret.expr), <<"&", "&">>) = {}
   /\ TopLevel(Trim(ret.expr), << ">" >>) = {}
   /\ TopLevel(Trim(ret.expr), <<"=", "=">>) # {}) =>
    LET expr == Trim(ret.expr)
        eq_pos == First(TopLevel(expr, <<"=", "=">>))
        l == evaluate_field_expression(Take(expr, eq_pos - 1), ret.data)
        f == ParseF64(NumberText(Token(expr, eq_pos, 2)))
    IN  (/\ l.st = "ok"
         /\ l.val.t = "number"
         /\ ~l.val.n.float
         /\ f.ok
         /\ f.cls = "finite") =>
          Outcome = ROk(JBool(l.val.n.v = f.v))

(***************************************************************************)
(* Properties of verification                                              *)
(***************************************************************************)
\* An input of verify_signature is malformed: text that is no hex, a public
\* key that is no SEC1 point, a signature of invalid encoding.
Malformed(public_key, signature, message) ==
  \/ ~hex_decode(public_key).ok
  \/ ~hex_decode(signature).ok
  \/ ~hex_decode(message).ok
  \/ ~from_sec1_bytes(hex_decode(public_key).bytes).ok
  \/ ~from_slice(hex_decode(signature).bytes).ok

\* C9: verify_signature returns false, without a panic, for every malformed
\* input.
C9_MalformedIsFalse ==
  (ret.op = "verify_signature" /\ Malformed(ret.public_key, ret.signature, ret.message)) =>
    ret.st = "returned" /\ ret.val = FALSE

\* Every step of the verification of a document succeeds.
DocumentVerifies(document, nonce, pcr, timestamp) ==
  /\ base64_decode(document).ok
  /\ hex_decode(nonce).ok
  /\ LET verified == parse_verify_with(base64_decode(document).bytes,
                                       hex_decode(nonce).bytes, timestamp)
     IN  /\ verified.ok
         /\ 2 \in DOMAIN verified.pcrs
         /\ base64_encode(verified.pcrs[2]) = pcr

\* C10: verify_attestation_document returns, without a panic, true when every
\* step succeeds and false when any step fails.
C10_FailureIsFalse ==
  ret.op = "verify_attestation_document" =>
    /\ ret.st = "returned"
    /\ ret.val = DocumentVerifies(ret.document, ret.nonce, ret.pcr, ret.timestamp)

=============================================================================
